---- MODULE Spec2Model ----
(***************************************************************************)
(* Verification model of the rate-limited, cached PubMed request pipeline: *)
(* RateLimiter and CacheManager (src/src/utils.py) and the dispatcher      *)
(* operations of PubMedClient (src/src/pubmed_client.py).                  *)
(*                                                                         *)
(* The specifications share the variables:                                 *)
(*   SpecLimiter  callers of RateLimiter.acquire, interleaved at the sleep *)
(*   SpecCache    get / set / clear / get_stats on one CacheManager        *)
(*   SpecKey      CacheManager.generate_key on two argument lists          *)
(*   SpecLongKey  the same on argument lists around the 200-character limit *)
(*   SpecClient   search_articles / search_by_author /                     *)
(*                find_related_articles over limiter, cache and upstream   *)
(*   SpecIds      get_article_details and find_related_articles called     *)
(*                with valid and invalid identifiers                       *)
(*   SpecParser   _parse_pubmed_xml on one payload                         *)
(*   SpecPmid     validate_pmid on one string                              *)
(*   SpecTool     ToolHandler.handle_tool_call over the client             *)
(*   SpecServer   PubMedMCPServer.run and shutdown (src/src/server.py)      *)
(***************************************************************************)
EXTENDS Integers, Sequences, FiniteSets, TLC

VARIABLES
    now,          \* the clock (time.time(), the TTLCache timer), in ticks
    rate,         \* RateLimiter.rate
    tokens,       \* RateLimiter.tokens
    last_update,  \* RateLimiter.last_update
    pc,           \* per caller of acquire(): "idle" or "sleeping"
    wakeAt,       \* per caller: the tick its asyncio.sleep(wait_time) ends
    outcome,      \* per caller: how its last acquire() ended
    used,         \* history: the callers that have called acquire()
    window,       \* history: the completed calls since the bucket first ran dry
    run,          \* history: the calls made back to back by one caller so far
    cache,        \* CacheManager.cache: the TTLCache entries, least recently used first
    maxsize,      \* TTLCache.maxsize
    ttl,          \* TTLCache.ttl, in ticks
    stats,        \* CacheManager.stats
    getCalls,     \* history: number of CacheManager.get calls made
    setCalls,     \* history: number of CacheManager.set calls made
    lastGet,      \* the CacheManager.get call that has just returned, and its result
    lastSet,      \* the CacheManager.set call that has just ended, and how
    lastUsed,     \* history: per key, the number of the last get or set that found or stored it
    callA,        \* generate_key: the arguments of a first call
    callB,        \* generate_key: the arguments of a second call
    keyA,         \* the key the first call returned, or NoKey
    keyB,         \* the key the second call returned, or NoKey
    arg,          \* the argument of a call of a function on its own
    ret,          \* what that call returned, or NoRet
    task,         \* per coroutine: the PubMedClient operation it runs
    opsStarted,   \* number of PubMedClient operations begun
    server        \* PubMedMCPServer: where run() is, and what shutdown() did

limVars == <<rate, tokens, last_update, pc, wakeAt, outcome>>
limHist == <<used, window, run>>
cacheVars == <<cache, maxsize, ttl, stats>>
cacheHist == <<getCalls, setCalls, lastGet, lastSet, lastUsed>>
keyVars == <<callA, callB, keyA, keyB>>
callVars == <<arg, ret>>
cliVars == <<task, opsStarted>>
srvVars == <<server>>

(***************************************************************************)
(* Bounds.                                                                 *)
(***************************************************************************)
Scale == 2        \* token amounts are counted in units of 1/Scale token
MaxRate == 4      \* rates 0 .. MaxRate units, i.e. 0 .. MaxRate/Scale tokens/s
MaxTime == 6      \* the clock stops here
NCallers == 2     \* coroutines sharing one RateLimiter
MaxSize == 2      \* max_size of the cache ranges over 0 .. MaxSize
MaxTtl == 2       \* ttl of the cache ranges over 1 .. MaxTtl ticks
MaxOps == 4       \* CacheManager.get and .set calls made in one behaviour
MaxCacheTime == 4 \* the clock stops here in SpecCache
MaxKwargs == 2    \* keyword arguments passed to generate_key
MaxClientOps == 3 \* PubMedClient operations begun in one behaviour
MaxClientTime == 2 \* the clock stops here in SpecClient
MaxNodes == 3     \* PubmedArticle nodes in one efetch payload
MaxPmidLen == 10  \* length of the strings given to validate_pmid

Callers == 1..NCallers

Min(a, b) == IF a <= b THEN a ELSE b

(***************************************************************************)
(* RateLimiter.  Token amounts (tokens, rate as the bucket ceiling) are    *)
(* integers in units of 1/Scale token.  One tick of the clock is the time  *)
(* in which a limiter of this rate accrues one unit (1/(rate*Scale) s), so *)
(* "elapsed * self.rate" is the number of elapsed ticks, and               *)
(* "(1 - self.tokens) / self.rate" seconds is Scale - tokens ticks.  With  *)
(* rate = 0 nothing accrues and the division raises ZeroDivisionError.     *)
(***************************************************************************)
Rates == 0..MaxRate

\* elapsed * self.rate, in units
Accrued(elapsed) == IF rate = 0 THEN 0 ELSE elapsed

\* a refill that forgets the ceiling of the bucket
RefillUncapped(tk, elapsed) == tk + Accrued(elapsed)

\* self.tokens = min(self.rate, self.tokens + elapsed * self.rate)
Refill(tk, elapsed) == Min(rate, tk + Accrued(elapsed))

\* if self.tokens >= 1
HasToken(tk) == tk >= Scale

\* wait_time = (1 - self.tokens) / self.rate, in ticks (rate > 0)
WaitTime(tk) == Scale - tk

\* The observation window of the rate property.  It opens at the first
\* completed acquire() that leaves the bucket with no credit (tokens = 0) and
\* counts the acquire() calls completed after that instant.
NoWindow == [open |-> FALSE, start |-> 0, count |-> 0]

Completed(w, tk) ==
    IF w.open THEN [w EXCEPT !.count = @ + 1]
    ELSE IF tk = 0 THEN [open |-> TRUE, start |-> now, count |-> 0]
    ELSE w

\* The run of consecutive acquire() calls: how many have returned and how many
\* of them had slept.  The run is over (BrokenRun) once a second caller calls
\* or the clock moves while no call is in progress.
NewRun == [live |-> TRUE, calls |-> 0, waited |-> 0]
BrokenRun == [live |-> FALSE, calls |-> 0, waited |-> 0]

Returned(r, slept) ==
    IF r.live
    THEN [r EXCEPT !.calls = @ + 1, !.waited = IF slept THEN @ + 1 ELSE @]
    ELSE r

InitLimiter ==
    /\ rate \in Rates
    /\ tokens = rate
    /\ last_update = 0
    /\ pc = [c \in Callers |-> "idle"]
    /\ wakeAt = [c \in Callers |-> 0]
    /\ outcome = [c \in Callers |-> "none"]
    /\ used = {}
    /\ window = NoWindow
    /\ run = NewRun

\* the history of the limiter after a step in which c's acquire() has run
Observed(c) ==
    /\ used' = used \cup {c}
    /\ window' = IF pc'[c] = "idle" /\ outcome'[c] = "granted"
                 THEN Completed(window, tokens')
                 ELSE window
    /\ run' = IF used \cup {c} # {c} THEN BrokenRun
              ELSE IF pc'[c] = "idle" /\ outcome'[c] = "granted"
              THEN Returned(run, pc[c] = "sleeping")
              ELSE run

\* acquire() called by c, up to its return, its raise or its
\* await asyncio.sleep(wait_time): what it does to the limiter
AcquireCall(c) ==
    /\ last_update' = now
    /\ LET refilled == Refill(tokens, now - last_update) IN
       IF HasToken(refilled)
       THEN /\ tokens' = refilled - Scale
            /\ outcome' = [outcome EXCEPT ![c] = "granted"]
            /\ UNCHANGED <<pc, wakeAt>>
       ELSE IF rate = 0
       THEN /\ tokens' = refilled
            /\ outcome' = [outcome EXCEPT ![c] = "raised"]
            /\ UNCHANGED <<pc, wakeAt>>
       ELSE /\ tokens' = refilled
            /\ pc' = [pc EXCEPT ![c] = "sleeping"]
            /\ wakeAt' = [wakeAt EXCEPT ![c] = now + WaitTime(refilled)]
            /\ outcome' = [outcome EXCEPT ![c] = "none"]
    /\ UNCHANGED rate

\* the value acquire() leaves in self.tokens after the sleep
AfterSleep(tk) == 0

\* acquire() from the end of c's sleep to its return: what it does to the limiter
WakeCall(c) ==
    /\ pc[c] = "sleeping"
    /\ now >= wakeAt[c]
    /\ tokens' = AfterSleep(tokens)
    /\ pc' = [pc EXCEPT ![c] = "idle"]
    /\ outcome' = [outcome EXCEPT ![c] = "granted"]
    /\ UNCHANGED <<rate, last_update, wakeAt>>


(***************************************************************************)
(* CacheManager over cachetools.TTLCache.  The store is the sequence of    *)
(* links, least recently used first; every entry has size 1.  An entry     *)
(* carries its expiry time (link.expires) and, as history, the time it was *)
(* stored (inserted_at).                                                   *)
(***************************************************************************)
None == [kind |-> "None"]
Str(x) == [kind |-> "str", v |-> x]

CacheKeys == {"key1", "key2", "key3"}
CacheValues == {Str("value1"), Str("value2")}

\* an entry that stays visible after its expiry time
LiveLate(e, t) == t <= e.expires

\* TTLCache: an entry is visible while timer() < link.expires
Live(e, t) == t < e.expires

\* TTLCache.expire(time): drop every entry that is no longer live
Expire(store, t) == SelectSeq(store, LAMBDA e : Live(e, t))

HasKey(store, key) == \E i \in 1..Len(store) : store[i].key = key

Without(store, key) == SelectSeq(store, LAMBDA e : e.key # key)

Entry(store, key) == store[CHOOSE i \in 1..Len(store) : store[i].key = key]

\* TTLCache.__contains__
Contains(store, key, t) == HasKey(store, key) /\ Live(Entry(store, key), t)

\* a key that is not hashable (a list): looking it up or storing under it
\* raises TypeError in the TTLCache
UnhashableKey == "[unhashable]"
Hashable(key) == key # UnhashableKey

\* the keys CacheManager.get and .set are called with
AllKeys == CacheKeys \cup {UnhashableKey}

\* TTLCache.get(key): the value, or None; a hit makes the key most recently
\* used; raises for a key that cannot be hashed
TTLGet(store, key, t) ==
    IF ~Hashable(key) THEN [raised |-> TRUE, value |-> None, store |-> store]
    ELSE IF Contains(store, key, t)
    THEN [raised |-> FALSE, value |-> Entry(store, key).value,
          store |-> Append(Without(store, key), Entry(store, key))]
    ELSE [raised |-> FALSE, value |-> None, store |-> store]

\* a popitem() that drops the most recently used entry
PopNewest(store) == SubSeq(store, 1, Len(store) - 1)

\* TTLCache.popitem() after expire: drop the least recently used entry
PopItem(store) == Tail(store)

\* Cache.__setitem__: "value too large" when one entry exceeds maxsize
TooLarge == 1 > maxsize

\* Cache.__setitem__: make room for a new key
RECURSIVE MakeRoom(_)
MakeRoom(store) ==
    IF Len(store) + 1 > maxsize THEN MakeRoom(PopItem(store)) ELSE store

\* a __setitem__ that adds an entry without replacing the one under the key
TTLSetAppending(store, key, value, t) ==
    LET live == Expire(store, t)
        new == [key |-> key, value |-> value, inserted_at |-> t, expires |-> t + ttl]
    IN  IF TooLarge \/ ~Hashable(key) THEN [ok |-> FALSE, store |-> live]
        ELSE [ok |-> TRUE, store |-> Append(live, new)]

\* TTLCache.__setitem__: expire, then store the entry as most recently used with
\* a fresh expiry; raises (ok = FALSE) when the value does not fit at all
TTLSet(store, key, value, t) ==
    LET live == Expire(store, t)
        new == [key |-> key, value |-> value, inserted_at |-> t, expires |-> t + ttl]
    IN  IF TooLarge \/ ~Hashable(key) THEN [ok |-> FALSE, store |-> live]
        ELSE IF HasKey(live, key)
        THEN [ok |-> TRUE, store |-> Append(Without(live, key), new)]
        ELSE [ok |-> TRUE, store |-> Append(MakeRoom(live), new)]

\* a method whose except clause lets the exception through
EscapesUncaught(raised) == raised

\* CacheManager.get and CacheManager.set: the body is inside try / except
\* Exception, and the clause logs the error and falls through to the end of the
\* method, so that an exception of the TTLCache does not leave the method
Escapes(raised) == FALSE

\* CacheManager.get: what it returns when self.cache.get(key) did r; after an
\* exception it returns None
CMGet(r) == [raised |-> Escapes(r.raised), value |-> IF r.raised THEN None ELSE r.value]

\* CacheManager.set: how it ends when self.cache[key] = value did r
CMSet(r) == [raised |-> Escapes(~r.ok)]

\* CacheManager.get: the counters st after a get that returned value
CMGetCount(st, value) ==
    IF value # None THEN [st EXCEPT !.hits = @ + 1]
    ELSE [st EXCEPT !.misses = @ + 1]

\* CacheManager.get: the returned value and the counters
CMGetStats(value) == CMGetCount(stats, value)

\* CacheManager.set: the counters after the try block
CMSetStats(ok) == IF ok THEN [stats EXCEPT !.sets = @ + 1] ELSE stats


NoGet == [called |-> FALSE]
NoSet == [called |-> FALSE]

InitCache ==
    /\ cache = <<>>
    /\ maxsize \in 0..MaxSize
    /\ ttl \in 1..MaxTtl
    /\ stats = [hits |-> 0, misses |-> 0, sets |-> 0]
    /\ getCalls = 0
    /\ setCalls = 0
    /\ lastGet = NoGet
    /\ lastSet = NoSet
    /\ lastUsed = [k \in CacheKeys |-> 0]

\* CacheManager.get(key): what it does to the manager
GetCall(key) ==
    /\ LET r == TTLGet(cache, key, now) IN
       /\ cache' = r.store
       /\ stats' = IF r.raised THEN stats ELSE CMGetStats(r.value)
    /\ UNCHANGED <<maxsize, ttl>>

\* CacheManager.set(key, value): what it does to the manager
SetCall(key, value) ==
    /\ LET r == TTLSet(cache, key, value, now) IN
       /\ cache' = r.store
       /\ stats' = CMSetStats(r.ok)
    /\ UNCHANGED <<maxsize, ttl>>

\* CacheManager.get_stats()["size"]: len(self.cache) of the live entries
StatsSize == Len(Expire(cache, now))


(***************************************************************************)
(* CacheManager.generate_key.  Python strings are sequences of one-letter  *)
(* strings; a Python value is a record tagged with its type.               *)
(***************************************************************************)
PyNone == [t |-> "None"]
PyInt(n) == [t |-> "int", i |-> n]
PyStr(cs) == [t |-> "str", s |-> cs]
PyList(xs) == [t |-> "list", l |-> xs]        \* a list of ints
PyDict(ps) == [t |-> "dict", d |-> ps]        \* items in insertion order: <<key, value>>, key a str, value an int
PyBool(b) == [t |-> "bool", b |-> b]
PyStrs(xs) == [t |-> "strs", l |-> xs]        \* a list of strs

\* a JSON array of any values, and a JSON object: its items in the order
\* they were set, <<key, value>>, key a str
PyVals(xs) == [t |-> "vals", l |-> xs]
PyObj(ps) == [t |-> "obj", d |-> ps]

\* the characters cs have the code points base, base + 1, ...
CodePoints(cs, base) ==
    [ch \in {cs[i] : i \in 1..Len(cs)} |-> base - 1 + CHOOSE i \in 1..Len(cs) : cs[i] = ch]

\* ord() of the tab, the newline, the printable ASCII characters (without
\* the backquote) and the printable characters of Latin-1
Ord ==
    CodePoints(<<"\t", "\n">>, 9)
    @@ CodePoints(<<" ", "!", "\"", "#", "$", "%", "&", "'", "(", ")", "*", "+", ",", "-",
      ".", "/", "0", "1", "2", "3", "4", "5", "6", "7", "8", "9", ":", ";",
      "<", "=", ">", "?", "@", "A", "B", "C", "D", "E", "F", "G", "H", "I",
      "J", "K", "L", "M", "N", "O", "P", "Q", "R", "S", "T", "U", "V", "W",
      "X", "Y", "Z", "[", "\\", "]", "^", "_">>, 32)
    @@ CodePoints(<<"a", "b", "c", "d", "e", "f", "g", "h", "i", "j", "k", "l", "m", "n",
      "o", "p", "q", "r", "s", "t", "u", "v", "w", "x", "y", "z", "{", "|",
      "}", "~">>, 97)
    @@ CodePoints(<<"¡", "¢", "£", "¤", "¥", "¦", "§", "¨", "©", "ª", "«", "¬">>, 161)
    @@ CodePoints(<<"®", "¯", "°", "±", "²", "³", "´", "µ", "¶", "·", "¸", "¹", "º", "»",
      "¼", "½", "¾", "¿", "À", "Á", "Â", "Ã", "Ä", "Å", "Æ", "Ç", "È", "É",
      "Ê", "Ë", "Ì", "Í", "Î", "Ï", "Ð", "Ñ", "Ò", "Ó", "Ô", "Õ", "Ö", "×",
      "Ø", "Ù", "Ú", "Û", "Ü", "Ý", "Þ", "ß", "à", "á", "â", "ã", "ä", "å",
      "æ", "ç", "è", "é", "ê", "ë", "ì", "í", "î", "ï", "ð", "ñ", "ò", "ó",
      "ô", "õ", "ö", "÷", "ø", "ù", "ú", "û", "ü", "ý", "þ", "ÿ">>, 174)

\* the code points of a string
Codes(cs) == [i \in 1..Len(cs) |-> Ord[cs[i]]]

\* Python's < on two strings, given by their code points (lexicographic), and
\* on two ints n, m given as <<n>>, <<m>>
RECURSIVE LexLess(_, _)
LexLess(x, y) ==
    IF y = <<>> THEN FALSE
    ELSE IF x = <<>> THEN TRUE
    ELSE IF Head(x) = Head(y) THEN LexLess(Tail(x), Tail(y))
    ELSE Head(x) < Head(y)

\* sorted(): a stable insertion sort of records [x, key] by key
RECURSIVE Insert(_, _)
Insert(p, sorted) ==
    IF sorted = <<>> THEN <<p>>
    ELSE IF LexLess(p.key, Head(sorted).key) THEN <<p>> \o sorted
    ELSE <<Head(sorted)>> \o Insert(p, Tail(sorted))

RECURSIVE SortPairs(_)
SortPairs(ps) ==
    IF ps = <<>> THEN <<>>
    ELSE Insert(ps[Len(ps)], SortPairs(SubSeq(ps, 1, Len(ps) - 1)))

\* sorted(xs), keys[i] being the sort key of xs[i]
Sorted(xs, keys) ==
    LET ps == SortPairs([i \in 1..Len(xs) |-> [x |-> xs[i], key |-> keys[i]]])
    IN  [i \in 1..Len(xs) |-> ps[i].x]

\* sorted(v) of a list of ints
SortedInts(xs) == Sorted(xs, [i \in 1..Len(xs) |-> <<xs[i]>>])

\* sorted(v) of a list of strs
SortedStrs(xs) == Sorted(xs, [i \in 1..Len(xs) |-> Codes(xs[i])])

\* sorted(v.items()) of a dict with distinct str keys
SortedItems(ps) == Sorted(ps, [i \in 1..Len(ps) |-> Codes(ps[i][1])])

Digits == <<"0", "1", "2", "3", "4", "5", "6", "7", "8", "9">>

\* str(n)
RECURSIVE IntStr(_)
IntStr(n) ==
    IF n < 0 THEN <<"-">> \o IntStr(0 - n)
    ELSE IF n < 10 THEN <<Digits[n + 1]>>
    ELSE IntStr(n \div 10) \o <<Digits[(n % 10) + 1]>>

\* sep.join(parts)
RECURSIVE Join(_, _)
Join(sep, parts) ==
    IF parts = <<>> THEN <<>>
    ELSE IF Len(parts) = 1 THEN parts[1]
    ELSE parts[1] \o sep \o Join(sep, Tail(parts))

\* str() of a list of ints: "[1, 2]"
ListStr(xs) == <<"[">> \o Join(<<",", " ">>, [i \in 1..Len(xs) |-> IntStr(xs[i])]) \o <<"]">>

\* repr() of a str: in single quotes, or in double quotes when it holds a
\* single quote and no double quote; the backslash, the enclosing quote, the
\* tab and the newline are escaped, and every other character in the domain
\* of Ord is printable and written as it is
Has(cs, ch) == \E i \in 1..Len(cs) : cs[i] = ch

ReprQuote(cs) == IF Has(cs, "'") /\ ~Has(cs, "\"") THEN "\"" ELSE "'"

ReprChar(ch, quote) ==
    IF ch = "\\" \/ ch = quote THEN <<"\\", ch>>
    ELSE IF ch = "\t" THEN <<"\\", "t">>
    ELSE IF ch = "\n" THEN <<"\\", "n">>
    ELSE <<ch>>

RECURSIVE ReprBody(_, _)
ReprBody(cs, quote) ==
    IF cs = <<>> THEN <<>>
    ELSE IF Len(cs) = 1 THEN ReprChar(cs[1], quote)
    ELSE LET h == Len(cs) \div 2
         IN  ReprBody(SubSeq(cs, 1, h), quote) \o ReprBody(SubSeq(cs, h + 1, Len(cs)), quote)

Repr(cs) == <<ReprQuote(cs)>> \o ReprBody(cs, ReprQuote(cs)) \o <<ReprQuote(cs)>>

\* str() of a list of strs: "['a', 'b']"
StrsStr(xs) ==
    <<"[">> \o Join(<<",", " ">>, [i \in 1..Len(xs) |-> Repr(xs[i])]) \o <<"]">>

\* repr() of a (str, int) tuple: "('x', 1)"
ItemStr(p) == <<"(">> \o Repr(p[1]) \o <<",", " ">> \o IntStr(p[2]) \o <<")">>

\* str() of a list of (str, int) tuples
ItemsStr(ps) == <<"[">> \o Join(<<",", " ">>, [i \in 1..Len(ps) |-> ItemStr(ps[i])]) \o <<"]">>

\* the int an int or a bool stands for (bool is a subclass of int)
IsNum(v) == v.t \in {"int", "bool"}
Num(v) == IF v.t = "bool" THEN (IF v.b THEN 1 ELSE 0) ELSE v.i

\* the items of a list of strs or of a JSON array, as values
Elems(v) == IF v.t = "strs" THEN [i \in 1..Len(v.l) |-> PyStr(v.l[i])] ELSE v.l

\* the items of the dict that a JSON object is parsed to: a key set twice
\* keeps its place and takes the later value
RECURSIVE ObjItems(_)
ObjItems(d) ==
    IF d = <<>> THEN <<>>
    ELSE LET rest == ObjItems(SubSeq(d, 1, Len(d) - 1))
             last == d[Len(d)]
         IN  IF \E i \in 1..Len(rest) : rest[i][1] = last[1]
             THEN [i \in 1..Len(rest) |-> IF rest[i][1] = last[1] THEN last ELSE rest[i]]
             ELSE Append(rest, last)

\* repr(v) of None, a bool, an int, a str, a list or a dict
RECURSIVE ReprOf(_)
ReprOf(v) ==
    CASE v.t = "None" -> <<"N", "o", "n", "e">>
      [] v.t = "bool" -> IF v.b THEN <<"T", "r", "u", "e">> ELSE <<"F", "a", "l", "s", "e">>
      [] v.t = "int" -> IntStr(v.i)
      [] v.t = "str" -> Repr(v.s)
      [] v.t \in {"strs", "vals"} ->
           <<"[">> \o Join(<<",", " ">>, [i \in 1..Len(v.l) |-> ReprOf(Elems(v)[i])]) \o <<"]">>
      [] v.t = "obj" ->
           <<"{">> \o Join(<<",", " ">>,
                          [i \in 1..Len(ObjItems(v.d)) |->
                              Repr(ObjItems(v.d)[i][1]) \o <<":", " ">> \o ReprOf(ObjItems(v.d)[i][2])])
                   \o <<"}">>

\* str(v) and f"{v}"
StrOf(v) == IF v.t = "str" THEN v.s ELSE ReprOf(v)

\* a == b
RECURSIVE PyEq(_, _)
PyEq(a, b) ==
    IF IsNum(a) /\ IsNum(b) THEN Num(a) = Num(b)
    ELSE IF a.t = "None" /\ b.t = "None" THEN TRUE
    ELSE IF a.t = "str" /\ b.t = "str" THEN a.s = b.s
    ELSE IF a.t \in {"strs", "vals"} /\ b.t \in {"strs", "vals"}
    THEN /\ Len(a.l) = Len(b.l)
         /\ \A i \in 1..Len(a.l) : PyEq(Elems(a)[i], Elems(b)[i])
    ELSE IF a.t = "obj" /\ b.t = "obj"
    THEN /\ Len(ObjItems(a.d)) = Len(ObjItems(b.d))
         /\ \A i \in 1..Len(ObjItems(a.d)) :
               \E j \in 1..Len(ObjItems(b.d)) :
                   /\ ObjItems(a.d)[i][1] = ObjItems(b.d)[j][1]
                   /\ PyEq(ObjItems(a.d)[i][2], ObjItems(b.d)[j][2])
    ELSE FALSE

\* a < b: "lt" when it is true, "ge" when it is false, "err" when it raises
\* TypeError (ints and bools compare as ints, strs by code points, lists item
\* by item; nothing else is ordered)
RECURSIVE PyLess(_, _)
PyLess(a, b) ==
    IF IsNum(a) /\ IsNum(b) THEN (IF Num(a) < Num(b) THEN "lt" ELSE "ge")
    ELSE IF a.t = "str" /\ b.t = "str"
    THEN (IF LexLess(Codes(a.s), Codes(b.s)) THEN "lt" ELSE "ge")
    ELSE IF a.t \in {"strs", "vals"} /\ b.t \in {"strs", "vals"}
    THEN LET n == Min(Len(a.l), Len(b.l))
             differ == {i \in 1..n : ~PyEq(Elems(a)[i], Elems(b)[i])}
             first == CHOOSE i \in differ : \A j \in differ : i <= j
         IN  IF differ = {} THEN (IF Len(a.l) < Len(b.l) THEN "lt" ELSE "ge")
             ELSE PyLess(Elems(a)[first], Elems(b)[first])
    ELSE "err"

\* sorted(xs) raises TypeError: two of the items are not ordered
Unsortable(xs) ==
    \E i, j \in 1..Len(xs) : i < j /\ PyLess(xs[i], xs[j]) = "err"

\* sorted(xs) of a list of values (stable)
RECURSIVE InsertVal(_, _)
InsertVal(x, sorted) ==
    IF sorted = <<>> THEN <<x>>
    ELSE IF PyLess(x, sorted[Len(sorted)]) = "lt"
    THEN Append(InsertVal(x, SubSeq(sorted, 1, Len(sorted) - 1)), sorted[Len(sorted)])
    ELSE Append(sorted, x)

RECURSIVE SortedVals(_)
SortedVals(xs) ==
    IF xs = <<>> THEN <<>>
    ELSE InsertVal(xs[Len(xs)], SortedVals(SubSeq(xs, 1, Len(xs) - 1)))

\* str(sorted(v.items())) of a JSON object: the keys are distinct strs, so
\* the values are never compared
ObjItemsStr(d) ==
    LET ps == SortedItems(ObjItems(d))
    IN  <<"[">> \o Join(<<",", " ">>,
                       [i \in 1..Len(ps) |->
                           <<"(">> \o Repr(ps[i][1]) \o <<",", " ">> \o ReprOf(ps[i][2]) \o <<")">>])
                \o <<"]">>

\* the text f"{v}" of a keyword value, after lists and dicts were replaced by
\* str(sorted(v)) and str(sorted(v.items()))
ValueStr(v) ==
    CASE v.t = "int" -> IntStr(v.i)
      [] v.t = "str" -> v.s
      [] v.t = "bool" -> IF v.b THEN <<"T", "r", "u", "e">> ELSE <<"F", "a", "l", "s", "e">>
      [] v.t = "list" -> ListStr(SortedInts(v.l))
      [] v.t = "strs" -> StrsStr(SortedStrs(v.l))
      [] v.t = "dict" -> ItemsStr(SortedItems(v.d))
      [] v.t = "vals" -> ReprOf(PyVals(SortedVals(v.l)))
      [] v.t = "obj" -> ObjItemsStr(v.d)

\* sorted(v) in generate_key raises TypeError for a keyword value
KeyFault(v) == v.t = "vals" /\ Unsortable(v.l)

\* the keyword arguments in the order they were passed
KwargsAsPassed(kwargs) == kwargs

\* for k, v in sorted(kwargs.items()): keyword names are distinct
SortKwargs(kwargs) == Sorted(kwargs, [i \in 1..Len(kwargs) |-> Codes(kwargs[i].k)])

\* the parts f"{k}={v}" of the keyword arguments that are not None
RECURSIVE KwParts(_)
KwParts(kws) ==
    IF kws = <<>> THEN <<>>
    ELSE IF Head(kws).v = PyNone THEN KwParts(Tail(kws))
    ELSE <<Head(kws).k \o <<"=">> \o ValueStr(Head(kws).v)>> \o KwParts(Tail(kws))

KeyLimit == 200

HexDigits == <<"0", "1", "2", "3", "4", "5", "6", "7", "8", "9", "a", "b", "c", "d", "e", "f">>

(***************************************************************************)
(* hashlib.md5(key_string.encode()).hexdigest() (RFC 1321).  A 32-bit word  *)
(* is a pair <<hi, lo>> of 16-bit halves.                                  *)
(***************************************************************************)
\* the bitwise and, or and exclusive or of two naturals below 2^n
RECURSIVE BitAnd(_, _, _)
BitAnd(a, b, n) ==
    IF n = 0 THEN 0
    ELSE (2 * BitAnd(a \div 2, b \div 2, n - 1)) + (IF a % 2 = 1 /\ b % 2 = 1 THEN 1 ELSE 0)

RECURSIVE BitOr(_, _, _)
BitOr(a, b, n) ==
    IF n = 0 THEN 0
    ELSE (2 * BitOr(a \div 2, b \div 2, n - 1)) + (IF a % 2 = 1 \/ b % 2 = 1 THEN 1 ELSE 0)

RECURSIVE BitXor(_, _, _)
BitXor(a, b, n) ==
    IF n = 0 THEN 0
    ELSE (2 * BitXor(a \div 2, b \div 2, n - 1)) + (IF a % 2 # b % 2 THEN 1 ELSE 0)

\* the same on 4-bit digits, tabulated
AndTab == [a \in 0..15 |-> [b \in 0..15 |-> BitAnd(a, b, 4)]]
OrTab == [a \in 0..15 |-> [b \in 0..15 |-> BitOr(a, b, 4)]]
XorTab == [a \in 0..15 |-> [b \in 0..15 |-> BitXor(a, b, 4)]]

\* a tabulated 4-bit operation applied to the four hex digits of two halves
Half(tab, x, y) ==
    (tab[x \div 4096][y \div 4096] * 4096)
        + (tab[(x \div 256) % 16][(y \div 256) % 16] * 256)
        + (tab[(x \div 16) % 16][(y \div 16) % 16] * 16)
        + tab[x % 16][y % 16]

WAnd(x, y) == <<Half(AndTab, x[1], y[1]), Half(AndTab, x[2], y[2])>>
WOr(x, y) == <<Half(OrTab, x[1], y[1]), Half(OrTab, x[2], y[2])>>
WXor(x, y) == <<Half(XorTab, x[1], y[1]), Half(XorTab, x[2], y[2])>>
WNot(x) == <<65535 - x[1], 65535 - x[2]>>

\* addition modulo 2^32
WAdd(x, y) ==
    LET lo == x[2] + y[2]
    IN  <<(x[1] + y[1] + (lo \div 65536)) % 65536, lo % 65536>>

\* rotation to the left by s bits, 0 < s < 32
WRotl(x, s) ==
    LET y == IF s >= 16 THEN <<x[2], x[1]>> ELSE x
        r == s % 16
    IN  IF r = 0 THEN y
        ELSE <<((y[1] * (2^r)) % 65536) + (y[2] \div (2^(16 - r))),
               ((y[2] * (2^r)) % 65536) + (y[1] \div (2^(16 - r)))>>

\* the per-round shift amounts and the constants floor(2^32 * abs(sin(i + 1)))
Md5Shifts ==
    <<
     7, 12, 17, 22, 7, 12, 17, 22, 7, 12, 17, 22, 7, 12, 17, 22,
     5, 9, 14, 20, 5, 9, 14, 20, 5, 9, 14, 20, 5, 9, 14, 20,
     4, 11, 16, 23, 4, 11, 16, 23, 4, 11, 16, 23, 4, 11, 16, 23,
     6, 10, 15, 21, 6, 10, 15, 21, 6, 10, 15, 21, 6, 10, 15, 21>>

Md5Sines ==
    <<
     <<55146, 42104>>, <<59591, 46934>>, <<9248, 28891>>, <<49597, 52974>>,
     <<62844, 4015>>, <<18311, 50730>>, <<43056, 17939>>, <<64838, 38145>>,
     <<27008, 39128>>, <<35652, 63407>>, <<65535, 23473>>, <<35164, 55230>>,
     <<27536, 4386>>, <<64920, 29075>>, <<42617, 17294>>, <<18868, 2081>>,
     <<63006, 9570>>, <<49216, 45888>>, <<9822, 23121>>, <<59830, 51114>>,
     <<54831, 4189>>, <<580, 5203>>, <<55457, 59009>>, <<59347, 64456>>,
     <<8673, 52710>>, <<49975, 2006>>, <<62677, 3463>>, <<17754, 5357>>,
     <<43491, 59653>>, <<64751, 41976>>, <<26479, 729>>, <<36138, 19594>>,
     <<65530, 14658>>, <<34673, 63105>>, <<28061, 24866>>, <<64997, 14348>>,
     <<42174, 59972>>, <<19422, 53161>>, <<63163, 19296>>, <<48831, 48240>>,
     <<10395, 32454>>, <<60065, 10234>>, <<54511, 12421>>, <<1160, 7429>>,
     <<55764, 53305>>, <<59099, 39397>>, <<8098, 31992>>, <<50348, 22117>>,
     <<62505, 8772>>, <<17194, 65431>>, <<43924, 9127>>, <<64659, 41017>>,
     <<25947, 22979>>, <<36620, 52370>>, <<65519, 62589>>, <<34180, 24017>>,
     <<28584, 32335>>, <<65068, 59104>>, <<41729, 17172>>, <<19976, 4513>>,
     <<63315, 32386>>, <<48442, 62005>>, <<10967, 53947>>, <<60294, 54161>>>>

\* one of the 64 operations (i from 0) on the state <<a, b, c, d>> and the
\* block m of 16 words
Md5Step(i, st, m) ==
    LET a == st[1]
        b == st[2]
        c == st[3]
        d == st[4]
        f == IF i < 16 THEN WOr(WAnd(b, c), WAnd(WNot(b), d))
             ELSE IF i < 32 THEN WOr(WAnd(d, b), WAnd(WNot(d), c))
             ELSE IF i < 48 THEN WXor(WXor(b, c), d)
             ELSE WXor(c, WOr(b, WNot(d)))
        g == IF i < 16 THEN i
             ELSE IF i < 32 THEN ((5 * i) + 1) % 16
             ELSE IF i < 48 THEN ((3 * i) + 5) % 16
             ELSE (7 * i) % 16
        sum == WAdd(WAdd(f, a), WAdd(Md5Sines[i + 1], m[g + 1]))
    IN  <<d, WAdd(b, WRotl(sum, Md5Shifts[i + 1])), b, c>>

\* the states of the digest: four words
Md5States == Seq(Seq(Nat))

\* the 64 operations on the state h
Md5Steps(h, m) ==
    LET steps[i \in 0..64, st \in Md5States] ==
            IF i = 64 THEN st ELSE steps[i + 1, Md5Step(i, st, m)]
    IN  steps[0, h]

\* the words of h and st added pairwise
Md5Sum(h, st) ==
    <<WAdd(h[1], st[1]), WAdd(h[2], st[2]), WAdd(h[3], st[3]), WAdd(h[4], st[4])>>

\* the state after one more 64-byte block
Md5Block(h, m) == Md5Sum(h, Md5Steps(h, m))

\* str.encode(): the UTF-8 bytes of a character below U+0800
Utf8(ch) ==
    IF Ord[ch] < 128 THEN <<Ord[ch]>>
    ELSE <<192 + (Ord[ch] \div 64), 128 + (Ord[ch] % 64)>>

RECURSIVE Encode(_)
Encode(cs) ==
    IF cs = <<>> THEN <<>>
    ELSE IF Len(cs) = 1 THEN Utf8(cs[1])
    ELSE LET h == Len(cs) \div 2
         IN  Encode(SubSeq(cs, 1, h)) \o Encode(SubSeq(cs, h + 1, Len(cs)))

\* the message padded to a multiple of 64 bytes: a 1 bit, zeros, and the
\* length in bits as 8 little-endian bytes
Md5Padded(bytes) ==
    LET n == Len(bytes)
        zeros == (119 - (n % 64)) % 64
        bits == 8 * n
    IN  bytes \o <<128>> \o [i \in 1..zeros |-> 0]
            \o <<bits % 256, (bits \div 256) % 256, (bits \div 65536) % 256,
                 bits \div 16777216, 0, 0, 0, 0>>

\* the 16 little-endian words of block k (from 0) of the padded message
Md5Words(padded, k) ==
    [j \in 1..16 |->
        LET o == (64 * k) + (4 * (j - 1))
        IN  <<padded[o + 3] + (256 * padded[o + 4]), padded[o + 1] + (256 * padded[o + 2])>>]

\* the state after all blocks of the padded message, from the state h
Md5Blocks(h, padded) ==
    LET blocks[k \in Nat, st \in Md5States] ==
            IF 64 * k >= Len(padded) THEN st
            ELSE blocks[k + 1, Md5Block(st, Md5Words(padded, k))]
    IN  blocks[0, h]

\* the two hex digits of a byte
HexByte(b) == <<HexDigits[(b \div 16) + 1], HexDigits[(b % 16) + 1]>>

\* the eight hex digits of a word, its bytes written least significant first
HexWord(w) ==
    HexByte(w[2] % 256) \o HexByte(w[2] \div 256) \o HexByte(w[1] % 256) \o HexByte(w[1] \div 256)

\* the digest: the four words of the final state in hex
Md5Digest(h) == HexWord(h[1]) \o HexWord(h[2]) \o HexWord(h[3]) \o HexWord(h[4])

\* hashlib.md5(cs.encode()).hexdigest()
Md5Hex(cs) ==
    Md5Digest(Md5Blocks(<<<<26437, 8961>>, <<61389, 43913>>, <<39098, 56574>>, <<4146, 21622>>>>,
                        Md5Padded(Encode(cs))))

\* key_string = ":".join(key_parts)
KeyString(args, kwargs) == Join(<<":">>, args \o KwParts(SortKwargs(kwargs)))

\* generate_key(*args, **kwargs): args are strs, kwargs the keyword arguments
\* in call order
GenerateKey(args, kwargs) ==
    LET key_string == KeyString(args, kwargs)
    IN  IF Len(key_string) > KeyLimit
        THEN key_string \o <<":">> \o Md5Hex(key_string)
        ELSE key_string

NoKey == <<"NoKey">>

KwNames == {<<"a">>, <<"b">>}

KwValues ==
    {PyNone, PyInt(1), PyInt(2), PyStr(<<"1">>), PyStr(<<"2">>),
     PyStr(<<"1", ":", "b", "=", "2">>),
     PyList(<<1, 2>>), PyList(<<2, 1>>),
     PyDict(<<<< <<"i", "t", "'", "s">>, 1>>, << <<"y">>, 2>>>>),
     PyDict(<<<< <<"y">>, 2>>, << <<"i", "t", "'", "s">>, 1>>>>)}

\* keyword arguments in call order: distinct names, at most MaxKwargs of them
KwargLists ==
    UNION {{kws \in [1..n -> [k : KwNames, v : KwValues]] :
                \A i, j \in 1..n : i # j => kws[i].k # kws[j].k} : n \in 0..MaxKwargs}

KeyCalls == [args : {<<<<"o", "p">>>>}, kwargs : KwargLists]

InitKey ==
    /\ callA \in KeyCalls
    /\ callB \in KeyCalls
    /\ keyA = NoKey
    /\ keyB = NoKey

IdleKey ==
    /\ callA = [args |-> <<<<"o", "p">>>>, kwargs |-> <<>>]
    /\ callB = callA
    /\ keyA = NoKey
    /\ keyB = NoKey

\* cache.generate_key(*callA.args, **callA.kwargs)
GenerateKeyA ==
    /\ keyA = NoKey
    /\ keyA' = GenerateKey(callA.args, callA.kwargs)
    /\ UNCHANGED <<now, limVars, limHist, cacheVars, cacheHist, callVars, srvVars, cliVars, callA, callB, keyB>>

\* cache.generate_key(*callB.args, **callB.kwargs)
GenerateKeyB ==
    /\ keyB = NoKey
    /\ keyB' = GenerateKey(callB.args, callB.kwargs)
    /\ UNCHANGED <<now, limVars, limHist, cacheVars, cacheHist, callVars, srvVars, cliVars, callA, callB, keyA>>


(***************************************************************************)
(* validate_pmid (src/src/utils.py).                                       *)
(***************************************************************************)
\* the characters for which str.isdigit() is true: the ASCII digits and, of
\* the other characters a string of the model can hold (Latin-1), the
\* superscript digits
DigitChars == {Digits[j] : j \in 1..Len(Digits)} \cup {"²", "³", "¹"}

\* s.isdigit(): s is not empty and all its characters are digits
IsDigit(s) == s # <<>> /\ \A i \in 1..Len(s) : s[i] \in DigitChars

\* a validate_pmid that accepts every string
AcceptAnyPmid(pmid) == TRUE

PmidMinLen == 7
PmidMaxLen == 9

\* validate_pmid(pmid)
ValidatePmid(pmid) ==
    IF pmid = <<>> \/ ~IsDigit(pmid) THEN FALSE
    ELSE PmidMinLen <= Len(pmid) /\ Len(pmid) <= PmidMaxLen

(***************************************************************************)
(* PubMedClient: _make_request and the operations search_articles,         *)
(* search_by_author, find_related_articles and get_article_details, each   *)
(* called with or without a cache.                                         *)
(***************************************************************************)
Kw(name, value) == [k |-> name, v |-> value]

\* the string of n characters ch
Rep(ch, n) == [i \in 1..n |-> ch]

\* the arguments the operations are called with
Query == <<"c", "a", "n", "c", "e", "r">>
AuthorName == <<"S", "m", "i", "t", "h", " ", "J">>
Pmid == <<"1", "2", "3", "4", "5", "6", "7", "8">>

\* max_results: int = 20 / 20 / 10
MaxResults(op) == IF op = "related" THEN 10 ELSE 20

\* the keyword arguments of search_articles after query, as generate_key is
\* given them, with the defaults of the signature: sort_order is the value of
\* the SortOrder, date_range the value of the DateRange or None, article_types
\* the values of the ArticleTypes or None
SearchDefaults ==
    [max_results |-> PyInt(MaxResults("search")), sort_order |-> PyStr(<<"r", "e", "l", "e", "v", "a", "n", "c", "e">>),
     date_from |-> PyNone, date_to |-> PyNone, date_range |-> PyNone,
     article_types |-> PyNone, authors |-> PyNone, journals |-> PyNone,
     mesh_terms |-> PyNone, language |-> PyNone, has_abstract |-> PyNone,
     has_full_text |-> PyNone, humans_only |-> PyNone]

\* search_articles: cache.generate_key("search", query=query, ...)
SearchKey(query, o) ==
    GenerateKey(<<<<"s", "e", "a", "r", "c", "h">>>>,
        <<Kw(<<"q", "u", "e", "r", "y">>, query), Kw(<<"m", "a", "x", "_", "r", "e", "s", "u", "l", "t", "s">>, o.max_results),
          Kw(<<"s", "o", "r", "t", "_", "o", "r", "d", "e", "r">>, o.sort_order), Kw(<<"d", "a", "t", "e", "_", "f", "r", "o", "m">>, o.date_from),
          Kw(<<"d", "a", "t", "e", "_", "t", "o">>, o.date_to), Kw(<<"d", "a", "t", "e", "_", "r", "a", "n", "g", "e">>, o.date_range),
          Kw(<<"a", "r", "t", "i", "c", "l", "e", "_", "t", "y", "p", "e", "s">>, o.article_types), Kw(<<"a", "u", "t", "h", "o", "r", "s">>, o.authors),
          Kw(<<"j", "o", "u", "r", "n", "a", "l", "s">>, o.journals), Kw(<<"m", "e", "s", "h", "_", "t", "e", "r", "m", "s">>, o.mesh_terms),
          Kw(<<"l", "a", "n", "g", "u", "a", "g", "e">>, o.language), Kw(<<"h", "a", "s", "_", "a", "b", "s", "t", "r", "a", "c", "t">>, o.has_abstract),
          Kw(<<"h", "a", "s", "_", "f", "u", "l", "l", "_", "t", "e", "x", "t">>, o.has_full_text), Kw(<<"h", "u", "m", "a", "n", "s", "_", "o", "n", "l", "y">>, o.humans_only)>>)

\* search_by_author: cache.generate_key("author_search", author=author_name, ...)
AuthorKey(author_name, o) ==
    GenerateKey(<<<<"a", "u", "t", "h", "o", "r", "_", "s", "e", "a", "r", "c", "h">>>>,
        <<Kw(<<"a", "u", "t", "h", "o", "r">>, author_name), Kw(<<"m", "a", "x", "_", "r", "e", "s", "u", "l", "t", "s">>, o.max_results),
          Kw(<<"i", "n", "c", "l", "u", "d", "e", "_", "c", "o", "a", "u", "t", "h", "o", "r", "s">>, o.include_coauthors)>>)

\* find_related_articles: cache.generate_key("related", pmid=pmid, max_results=max_results)
RelatedKey(pmid, o) ==
    GenerateKey(<<<<"r", "e", "l", "a", "t", "e", "d">>>>,
        <<Kw(<<"p", "m", "i", "d">>, pmid), Kw(<<"m", "a", "x", "_", "r", "e", "s", "u", "l", "t", "s">>, o.max_results)>>)

\* get_article_details: cache.generate_key("article_details", pmids=valid_pmids, ...)
DetailsKey(valid_pmids, o) ==
    GenerateKey(<<<<"a", "r", "t", "i", "c", "l", "e", "_", "d", "e", "t", "a", "i", "l", "s">>>>,
        <<Kw(<<"p", "m", "i", "d", "s">>, PyStrs(valid_pmids)),
          Kw(<<"i", "n", "c", "l", "u", "d", "e", "_", "a", "b", "s", "t", "r", "a", "c", "t", "s">>, o.include_abstracts),
          Kw(<<"i", "n", "c", "l", "u", "d", "e", "_", "c", "i", "t", "a", "t", "i", "o", "n", "s">>, o.include_citations)>>)

\* the keyword arguments of each operation after its first, with the
\* defaults of its signature
DefaultOpts(op) ==
    CASE op = "search" -> SearchDefaults
      [] op = "author_search" ->
           [max_results |-> PyInt(MaxResults(op)), include_coauthors |-> PyBool(TRUE)]
      [] op = "related" -> [max_results |-> PyInt(MaxResults(op))]
      [] op = "details" ->
           [include_abstracts |-> PyBool(TRUE), include_citations |-> PyBool(FALSE)]

\* a filter that keeps every identifier supplied
AllPmids(pmids) == pmids

\* valid_pmids = [pmid for pmid in pmids if validate_pmid(pmid)]
ValidPmids(pmids) == SelectSeq(pmids, ValidatePmid)

\* a call of an operation: x is the query, the author name, the pmid or the
\* list of pmids, opts the keyword arguments that follow it, v the first
\* argument as a value
CallWith(op, x, opts) ==
    [op |-> op, x |-> x, opts |-> opts, v |-> IF op = "details" THEN PyStrs(x) ELSE PyStr(x)]

\* a call that leaves the keyword arguments at their defaults
Call(op, x) == CallWith(op, x, DefaultOpts(op))

\* the calls with well-formed arguments
ClientCalls == {Call("search", Query), Call("author_search", AuthorName), Call("related", Pmid)}

\* identifiers as callers supply them: a second valid one (its last character
\* a superscript digit, which str.isdigit() accepts), one too short, one with
\* a letter
Pmid2 == <<"1", "2", "3", "4", "5", "6", "7", "²">>
ShortPmid == <<"1", "2", "3", "4", "5", "6">>
LetterPmid == <<"1", "2", "3", "4", "5", "6", "7", "a">>

PmidArgs == {Pmid, Pmid2, ShortPmid, LetterPmid}

\* the lists of identifiers given to get_article_details: empty, all invalid,
\* all valid (in two orders), valid and invalid mixed
PmidLists ==
    {<<>>, <<ShortPmid, LetterPmid>>, <<Pmid>>, <<ShortPmid, Pmid>>,
     <<Pmid, Pmid2>>, <<Pmid2, LetterPmid, Pmid>>}

\* the calls that take identifiers
IdCalls ==
    {Call("related", p) : p \in PmidArgs} \cup {Call("details", ps) : ps \in PmidLists}

(***************************************************************************)
(* ToolHandler (src/src/tool_handler.py): what handle_tool_call and the    *)
(* twelve handlers do with the arguments before the client is called.  The *)
(* arguments are None or a dict, given by its items <<key, value>>, key a  *)
(* string and value a Python value.                                        *)
(***************************************************************************)
\* handler_map
HandledTools ==
    {"search_pubmed", "get_article_details", "search_by_author", "find_related_articles",
     "export_citations", "search_mesh_terms", "search_by_journal", "get_trending_topics",
     "analyze_research_trends", "compare_articles", "get_journal_metrics",
     "advanced_search"}

ToolNames == HandledTools \cup {"no_such_tool"}

\* arguments.get(key, default) on the dict a JSON object is parsed to
ArgGet(arguments, key, default) ==
    LET set == {i \in 1..Len(arguments.d) : arguments.d[i][1] = key}
    IN  IF set = {} THEN default
        ELSE arguments.d[CHOOSE i \in set : \A j \in set : j <= i][2]

\* "not v": None, the empty str, 0, False and the empty list or dict are false
Falsy(v) ==
    CASE v.t = "None" -> TRUE
      [] v.t = "str" -> v.s = <<>>
      [] v.t = "int" -> v.i = 0
      [] v.t = "bool" -> ~v.b
      [] v.t \in {"list", "strs", "vals"} -> v.l = <<>>
      [] v.t \in {"dict", "obj"} -> v.d = <<>>

\* v is a str
IsStr(v) == v.t = "str"

\* "for x in v" and len(v) raise TypeError for None, an int and a bool
Iterable(v) == v.t \in {"str", "strs", "vals", "obj"}

\* the values "for x in v" yields: the characters of a str, the items of a
\* list, the keys of a dict
Iter(v) ==
    CASE v.t = "str" -> [i \in 1..Len(v.s) |-> PyStr(<<v.s[i]>>)]
      [] v.t \in {"strs", "vals"} -> Elems(v)
      [] v.t = "obj" -> [i \in 1..Len(ObjItems(v.d)) |-> PyStr(ObjItems(v.d)[i][1])]

\* len(v)
PyLen(v) == Len(Iter(v))

\* [f"{x}" for x in v]
Texts(v) == [i \in 1..Len(Iter(v)) |-> StrOf(Iter(v)[i])]

\* Enum(v) returns a member: v is a str and one of the values (any other
\* value raises ValueError)
IsMember(v, values) == v.t = "str" /\ v.s \in values

\* the values of SortOrder, DateRange, ArticleType and CitationFormat
\* (src/src/models.py): Enum(value) raises ValueError for any other value
SortOrders == {<<"r", "e", "l", "e", "v", "a", "n", "c", "e">>, <<"p", "u", "b", "_", "d", "a", "t", "e">>, <<"a", "u", "t", "h", "o", "r">>, <<"j", "o", "u", "r", "n", "a", "l">>, <<"t", "i", "t", "l", "e">>}
DateRanges == {<<"1", "y">>, <<"5", "y">>, <<"1", "0", "y">>, <<"a", "l", "l">>}
ArticleTypes ==
    {<<"J", "o", "u", "r", "n", "a", "l", " ", "A", "r", "t", "i", "c", "l", "e">>, <<"R", "e", "v", "i", "e", "w">>, <<"S", "y", "s", "t", "e", "m", "a", "t", "i", "c", " ", "R", "e", "v", "i", "e", "w">>, <<"M", "e", "t", "a", "-", "A", "n", "a", "l", "y", "s", "i", "s">>,
     <<"C", "l", "i", "n", "i", "c", "a", "l", " ", "T", "r", "i", "a", "l">>, <<"R", "a", "n", "d", "o", "m", "i", "z", "e", "d", " ", "C", "o", "n", "t", "r", "o", "l", "l", "e", "d", " ", "T", "r", "i", "a", "l">>, <<"C", "a", "s", "e", " ", "R", "e", "p", "o", "r", "t", "s">>, <<"L", "e", "t", "t", "e", "r">>,
     <<"E", "d", "i", "t", "o", "r", "i", "a", "l">>, <<"C", "o", "m", "m", "e", "n", "t">>}
CitationFormats == {<<"b", "i", "b", "t", "e", "x">>, <<"e", "n", "d", "n", "o", "t", "e">>, <<"r", "i", "s">>, <<"a", "p", "a">>, <<"m", "l", "a">>, <<"c", "h", "i", "c", "a", "g", "o">>, <<"v", "a", "n", "c", "o", "u", "v", "e", "r">>}

\* datetime.now(): the day on which the calls are made
Today == [year |-> 2026, month |-> 1, day |-> 3]

\* the number of days from 1970-01-01 to the date
DaysFromCivil(date) ==
    LET y == IF date.month <= 2 THEN date.year - 1 ELSE date.year
        era == y \div 400
        yoe == y - (era * 400)
        mp == IF date.month > 2 THEN date.month - 3 ELSE date.month + 9
        doy == (((153 * mp) + 2) \div 5) + date.day - 1
        doe == (yoe * 365) + (yoe \div 4) - (yoe \div 100) + doy
    IN  (era * 146097) + doe - 719468

\* the date that lies the given number of days after 1970-01-01
CivilFromDays(days) ==
    LET z == days + 719468
        era == z \div 146097
        doe == z - (era * 146097)
        yoe == (doe - (doe \div 1460) + (doe \div 36524) - (doe \div 146096)) \div 365
        doy == doe - ((365 * yoe) + (yoe \div 4) - (yoe \div 100))
        mp == ((5 * doy) + 2) \div 153
        m == IF mp < 10 THEN mp + 3 ELSE mp - 9
    IN  [year |-> yoe + (era * 400) + (IF m <= 2 THEN 1 ELSE 0), month |-> m,
         day |-> doy - (((153 * mp) + 2) \div 5) + 1]

\* datetime.min and datetime.max, as dates
MinDate == [year |-> 1, month |-> 1, day |-> 1]
MaxDate == [year |-> 9999, month |-> 12, day |-> 31]

\* no date: the subtraction raised OverflowError
NoDate == [year |-> 0, month |-> 0, day |-> 0]

\* timedelta(days=days) raises OverflowError beyond this magnitude
MaxTimedeltaDays == 999999999

\* timedelta(days=days): the exception it raises, or "none"
TimedeltaFault(days) ==
    IF ~IsNum(days) THEN "TypeError"
    ELSE IF Num(days) > MaxTimedeltaDays \/ Num(days) < 0 - MaxTimedeltaDays THEN "OverflowError"
    ELSE "none"

\* date - timedelta(days=days), for days that timedelta takes: a date
\* before datetime.min or after datetime.max raises OverflowError
MinusDays(date, days) ==
    IF \/ DaysFromCivil(date) - days < DaysFromCivil(MinDate)
       \/ DaysFromCivil(date) - days > DaysFromCivil(MaxDate)
    THEN NoDate
    ELSE CivilFromDays(DaysFromCivil(date) - days)

\* str(n) padded with zeros on the left to the given width
Padded(n, width) == Rep("0", width - Len(IntStr(n))) \o IntStr(n)

\* date.strftime("%Y/%m/%d") with the C library of Linux: %Y is the year
\* without padding, %m and %d have two digits
Strftime(date) ==
    IntStr(date.year) \o <<"/">> \o Padded(date.month, 2) \o <<"/">> \o Padded(date.day, 2)

\* s.lower(), for the characters a string of the model can hold
Lower(s) ==
    LET upper == <<"A", "B", "C", "D", "E", "F", "G", "H", "I", "J", "K", "L", "M",
                   "N", "O", "P", "Q", "R", "S", "T", "U", "V", "W", "X", "Y", "Z",
                   "À", "Á", "Â", "Ã", "Ä", "Å", "Æ", "Ç", "È", "É", "Ê", "Ë", "Ì",
                   "Í", "Î", "Ï", "Ð", "Ñ", "Ò", "Ó", "Ô", "Õ", "Ö", "Ø", "Ù", "Ú",
                   "Û", "Ü", "Ý", "Þ">>
        lower == <<"a", "b", "c", "d", "e", "f", "g", "h", "i", "j", "k", "l", "m",
                   "n", "o", "p", "q", "r", "s", "t", "u", "v", "w", "x", "y", "z",
                   "à", "á", "â", "ã", "ä", "å", "æ", "ç", "è", "é", "ê", "ë", "ì",
                   "í", "î", "ï", "ð", "ñ", "ò", "ó", "ô", "õ", "ö", "ø", "ù", "ú",
                   "û", "ü", "ý", "þ">>
    IN  [i \in 1..Len(s) |->
            IF \E j \in 1..Len(upper) : upper[j] = s[i]
            THEN lower[CHOOSE j \in 1..Len(upper) : upper[j] = s[i]]
            ELSE s[i]]

\* f'"{cs}"{tag}'
Quoted(cs, tag) == <<"\"">> \o cs \o <<"\"">> \o tag

\* what a handler does before it calls the client: it returns an error
\* response (Reply), it raises inside its try block (Raise), or it calls the
\* client operations calls, one after the other (Await)
Reply(text) == [kind |-> "reject", text |-> text, error |-> "none", calls |-> <<>>]
Raise(error) == [kind |-> "raise", text |-> "", error |-> error, calls |-> <<>>]
Await(calls) == [kind |-> "call", text |-> "", error |-> "none", calls |-> calls]

\* a call of an operation by a handler: v is the first argument as the
\* handler passes it, whatever its type; x is what the operation reads of
\* it (the strs among the identifiers for get_article_details, f"{v}" for
\* the others)
CallOf(op, v, opts) ==
    [op |-> op,
     x |-> IF op # "details" THEN StrOf(v)
           ELSE IF ~Iterable(v) THEN <<>>
           ELSE LET strs == SelectSeq(Iter(v), IsStr)
                IN  [i \in 1..Len(strs) |-> strs[i].s],
     opts |-> opts, v |-> v]

\* _handle_search_pubmed up to search_articles
HandleSearchPubmed(arguments) ==
    LET query == ArgGet(arguments, <<"q", "u", "e", "r", "y">>, PyStr(<<>>))
        max_results == ArgGet(arguments, <<"m", "a", "x", "_", "r", "e", "s", "u", "l", "t", "s">>, PyInt(20))
        sort_order == ArgGet(arguments, <<"s", "o", "r", "t", "_", "o", "r", "d", "e", "r">>, PyStr(<<"r", "e", "l", "e", "v", "a", "n", "c", "e">>))
        date_range == ArgGet(arguments, <<"d", "a", "t", "e", "_", "r", "a", "n", "g", "e">>, PyNone)
        article_types == ArgGet(arguments, <<"a", "r", "t", "i", "c", "l", "e", "_", "t", "y", "p", "e", "s">>, PyNone)
    IN  IF Falsy(query) THEN Reply("Query parameter is required")
        ELSE IF ~IsNum(max_results) THEN Raise("TypeError")
        ELSE IF ~IsMember(sort_order, SortOrders) THEN Raise("ValueError")
        ELSE IF ~Falsy(date_range) /\ ~IsMember(date_range, DateRanges) THEN Raise("ValueError")
        ELSE IF ~Falsy(article_types) /\ ~Iterable(article_types) THEN Raise("TypeError")
        ELSE IF /\ ~Falsy(article_types)
                /\ \E i \in 1..PyLen(article_types) :
                      ~IsMember(Iter(article_types)[i], ArticleTypes)
        THEN Raise("ValueError")
        ELSE Await(<<CallOf("search", query,
                 [max_results |-> IF Num(max_results) < 0 THEN PyInt(0) ELSE max_results,
                  sort_order |-> sort_order,
                  date_from |-> ArgGet(arguments, <<"d", "a", "t", "e", "_", "f", "r", "o", "m">>, PyNone),
                  date_to |-> ArgGet(arguments, <<"d", "a", "t", "e", "_", "t", "o">>, PyNone),
                  date_range |-> IF Falsy(date_range) THEN PyNone ELSE date_range,
                  article_types |-> IF Falsy(article_types) THEN PyNone
                                    ELSE PyStrs(Texts(article_types)),
                  authors |-> ArgGet(arguments, <<"a", "u", "t", "h", "o", "r", "s">>, PyNone),
                  journals |-> ArgGet(arguments, <<"j", "o", "u", "r", "n", "a", "l", "s">>, PyNone),
                  mesh_terms |-> ArgGet(arguments, <<"m", "e", "s", "h", "_", "t", "e", "r", "m", "s">>, PyNone),
                  language |-> ArgGet(arguments, <<"l", "a", "n", "g", "u", "a", "g", "e">>, PyNone),
                  has_abstract |-> ArgGet(arguments, <<"h", "a", "s", "_", "a", "b", "s", "t", "r", "a", "c", "t">>, PyNone),
                  has_full_text |-> ArgGet(arguments, <<"h", "a", "s", "_", "f", "u", "l", "l", "_", "t", "e", "x", "t">>, PyNone),
                  humans_only |-> ArgGet(arguments, <<"h", "u", "m", "a", "n", "s", "_", "o", "n", "l", "y">>, PyNone)])>>)

\* _handle_get_article_details up to get_article_details
HandleGetArticleDetails(arguments) ==
    LET pmids == ArgGet(arguments, <<"p", "m", "i", "d", "s">>, PyStrs(<<>>)) IN
    IF Falsy(pmids) THEN Reply("PMIDs parameter is required")
    ELSE Await(<<CallOf("details", pmids,
             [include_abstracts |-> ArgGet(arguments, <<"i", "n", "c", "l", "u", "d", "e", "_", "a", "b", "s", "t", "r", "a", "c", "t", "s">>, PyBool(TRUE)),
              include_citations |-> ArgGet(arguments, <<"i", "n", "c", "l", "u", "d", "e", "_", "c", "i", "t", "a", "t", "i", "o", "n", "s">>, PyBool(FALSE))])>>)

\* _handle_search_by_author up to search_by_author
HandleSearchByAuthor(arguments) ==
    LET author_name == ArgGet(arguments, <<"a", "u", "t", "h", "o", "r", "_", "n", "a", "m", "e">>, PyStr(<<>>)) IN
    IF Falsy(author_name) THEN Reply("Author name is required")
    ELSE Await(<<CallOf("author_search", author_name,
             [max_results |-> ArgGet(arguments, <<"m", "a", "x", "_", "r", "e", "s", "u", "l", "t", "s">>, PyInt(20)),
              include_coauthors |-> ArgGet(arguments, <<"i", "n", "c", "l", "u", "d", "e", "_", "c", "o", "a", "u", "t", "h", "o", "r", "s">>, PyBool(TRUE))])>>)

\* _handle_find_related_articles up to find_related_articles
HandleFindRelatedArticles(arguments) ==
    LET pmid == ArgGet(arguments, <<"p", "m", "i", "d">>, PyStr(<<>>)) IN
    IF Falsy(pmid) THEN Reply("PMID is required")
    ELSE Await(<<CallOf("related", pmid,
             [max_results |-> ArgGet(arguments, <<"m", "a", "x", "_", "r", "e", "s", "u", "l", "t", "s">>, PyInt(10))])>>)

\* _handle_export_citations up to get_article_details
HandleExportCitations(arguments) ==
    LET pmids == ArgGet(arguments, <<"p", "m", "i", "d", "s">>, PyStrs(<<>>)) IN
    IF Falsy(pmids) THEN Reply("PMIDs parameter is required")
    ELSE IF ~IsMember(ArgGet(arguments, <<"f", "o", "r", "m", "a", "t">>, PyStr(<<"b", "i", "b", "t", "e", "x">>)), CitationFormats)
    THEN Raise("ValueError")
    ELSE Await(<<CallOf("details", pmids,
             [include_abstracts |-> PyBool(TRUE), include_citations |-> PyBool(FALSE)])>>)

\* _handle_search_mesh_terms up to search_articles
HandleSearchMeshTerms(arguments) ==
    LET term == ArgGet(arguments, <<"t", "e", "r", "m">>, PyStr(<<>>)) IN
    IF Falsy(term) THEN Reply("MeSH term is required")
    ELSE Await(<<CallOf("search", PyStr(Quoted(StrOf(term), <<"[", "M", "e", "S", "H", " ", "T", "e", "r", "m", "s", "]">>)),
             [SearchDefaults EXCEPT !.max_results = ArgGet(arguments, <<"m", "a", "x", "_", "r", "e", "s", "u", "l", "t", "s">>, PyInt(20))])>>)

\* _handle_search_by_journal up to search_articles
HandleSearchByJournal(arguments) ==
    LET journal_name == ArgGet(arguments, <<"j", "o", "u", "r", "n", "a", "l", "_", "n", "a", "m", "e">>, PyStr(<<>>)) IN
    IF Falsy(journal_name) THEN Reply("Journal name is required")
    ELSE Await(<<CallOf("search", PyStr(Quoted(StrOf(journal_name), <<"[", "J", "o", "u", "r", "n", "a", "l", "]">>)),
             [SearchDefaults EXCEPT !.max_results = ArgGet(arguments, <<"m", "a", "x", "_", "r", "e", "s", "u", "l", "t", "s">>, PyInt(20)),
                                    !.date_from = ArgGet(arguments, <<"d", "a", "t", "e", "_", "f", "r", "o", "m">>, PyNone),
                                    !.date_to = ArgGet(arguments, <<"d", "a", "t", "e", "_", "t", "o">>, PyNone)])>>)

\* _handle_get_trending_topics up to search_articles
HandleGetTrendingTopics(arguments) ==
    LET category == ArgGet(arguments, <<"c", "a", "t", "e", "g", "o", "r", "y">>, PyStr(<<>>))
        days == ArgGet(arguments, <<"d", "a", "y", "s">>, PyInt(7))
        query == IF Falsy(category)
                 THEN <<"(", "\"", "t", "r", "e", "n", "d", "i", "n", "g", "\"", " ", "O", "R", " ", "\"", "e", "m", "e", "r", "g", "i", "n", "g", "\"", " ", "O", "R", " ", "\"", "b", "r", "e", "a", "k", "t", "h", "r", "o", "u", "g", "h", "\"", " ", "O", "R", " ", "\"", "n", "o", "v", "e", "l", "\"", ")", " ", "A", "N", "D", " ", "(", "m", "e", "d", "i", "c", "i", "n", "e", " ", "O", "R", " ", "m", "e", "d", "i", "c", "a", "l", ")">>
                 ELSE StrOf(category) \o <<" ", "A", "N", "D", " ", "(", "\"", "t", "r", "e", "n", "d", "i", "n", "g", "\"", " ", "O", "R", " ", "\"", "e", "m", "e", "r", "g", "i", "n", "g", "\"", " ", "O", "R", " ", "\"", "n", "e", "w", "\"", " ", "O", "R", " ", "\"", "n", "o", "v", "e", "l", "\"", ")">>
    IN  IF TimedeltaFault(days) # "none" THEN Raise(TimedeltaFault(days))
        ELSE IF MinusDays(Today, Num(days)) = NoDate THEN Raise("OverflowError")
        ELSE Await(<<CallOf("search", PyStr(query),
                 [SearchDefaults EXCEPT
                     !.max_results = PyInt(30),
                     !.sort_order = PyStr(<<"p", "u", "b", "_", "d", "a", "t", "e">>),
                     !.date_from = PyStr(Strftime(MinusDays(Today, Num(days)))),
                     !.date_to = PyStr(Strftime(Today))])>>)

\* _handle_analyze_research_trends up to the first search_articles: one
\* search for each year of range(current_year - years_back, current_year + 1)
HandleAnalyzeResearchTrends(arguments) ==
    LET topic == ArgGet(arguments, <<"t", "o", "p", "i", "c">>, PyStr(<<>>))
        years_back == ArgGet(arguments, <<"y", "e", "a", "r", "s", "_", "b", "a", "c", "k">>, PyInt(5))
        years == IF Num(years_back) < 0 THEN 0 ELSE Num(years_back) + 1
    IN  IF Falsy(topic) THEN Reply("Topic is required")
        ELSE IF ~IsNum(years_back) THEN Raise("TypeError")
        ELSE Await([k \in 1..years |->
                 CallOf("search", topic,
                     [SearchDefaults EXCEPT
                         !.max_results = PyInt(200),
                         !.date_from = PyStr(IntStr(Today.year - Num(years_back) + k - 1) \o <<"/", "0", "1", "/", "0", "1">>),
                         !.date_to = PyStr(IntStr(Today.year - Num(years_back) + k - 1) \o <<"/", "1", "2", "/", "3", "1">>)])])

\* _handle_compare_articles up to get_article_details
HandleCompareArticles(arguments) ==
    LET pmids == ArgGet(arguments, <<"p", "m", "i", "d", "s">>, PyStrs(<<>>)) IN
    IF ~Iterable(pmids) THEN Raise("TypeError")
    ELSE IF PyLen(pmids) < 2 \/ PyLen(pmids) > 5
    THEN Reply("Please provide 2-5 PMIDs for comparison")
    ELSE Await(<<CallOf("details", pmids,
             [include_abstracts |-> PyBool(TRUE), include_citations |-> PyBool(FALSE)])>>)

\* _handle_get_journal_metrics up to search_articles
HandleGetJournalMetrics(arguments) ==
    LET journal_name == ArgGet(arguments, <<"j", "o", "u", "r", "n", "a", "l", "_", "n", "a", "m", "e">>, PyStr(<<>>)) IN
    IF Falsy(journal_name) THEN Reply("Journal name is required")
    ELSE Await(<<CallOf("search", PyStr(Quoted(StrOf(journal_name), <<"[", "J", "o", "u", "r", "n", "a", "l", "]">>)),
             [SearchDefaults EXCEPT !.max_results = PyInt(50),
                                    !.sort_order = PyStr(<<"p", "u", "b", "_", "d", "a", "t", "e">>),
                                    !.date_from = PyStr(IntStr(Today.year) \o <<"/", "0", "1", "/", "0", "1">>)])>>)

\* field_query in _handle_advanced_search, as f"{field_query}" gives it, for
\* the text f"{term}" of the term
FieldQuery(term, field) ==
    IF field.t # "str" THEN term
    ELSE CASE field.s = <<"t", "i", "t", "l", "e">> -> Quoted(term, <<"[", "T", "i", "t", "l", "e", "]">>)
           [] field.s = <<"a", "b", "s", "t", "r", "a", "c", "t">> -> Quoted(term, <<"[", "A", "b", "s", "t", "r", "a", "c", "t", "]">>)
           [] field.s = <<"a", "u", "t", "h", "o", "r">> -> Quoted(term, <<"[", "A", "u", "t", "h", "o", "r", "]">>)
           [] field.s = <<"j", "o", "u", "r", "n", "a", "l">> -> Quoted(term, <<"[", "J", "o", "u", "r", "n", "a", "l", "]">>)
           [] field.s = <<"m", "e", "s", "h">> -> Quoted(term, <<"[", "M", "e", "S", "H", " ", "T", "e", "r", "m", "s", "]">>)
           [] OTHER -> term

\* the exception the filters of _handle_advanced_search raise, or "none":
\* a filter that is set is iterated, and the species are lowered
FilterFault(filters) ==
    LET publication_types == ArgGet(filters, <<"p", "u", "b", "l", "i", "c", "a", "t", "i", "o", "n", "_", "t", "y", "p", "e", "s">>, PyNone)
        languages == ArgGet(filters, <<"l", "a", "n", "g", "u", "a", "g", "e", "s">>, PyNone)
        species == ArgGet(filters, <<"s", "p", "e", "c", "i", "e", "s">>, PyNone)
    IN  IF ~Falsy(publication_types) /\ ~Iterable(publication_types) THEN "TypeError"
        ELSE IF ~Falsy(languages) /\ ~Iterable(languages) THEN "TypeError"
        ELSE IF ~Falsy(species) /\ ~Iterable(species) THEN "TypeError"
        ELSE IF ~Falsy(species) /\ \E i \in 1..PyLen(species) : Iter(species)[i].t # "str"
        THEN "AttributeError"
        ELSE "none"

\* the query _handle_advanced_search builds from search_terms (dicts) and
\* filters
AdvancedQuery(search_terms, filters) ==
    LET part(i) ==
            (IF i > 1
             THEN <<" ">> \o StrOf(ArgGet(search_terms[i], <<"o", "p", "e", "r", "a", "t", "o", "r">>, PyStr(<<"A", "N", "D">>))) \o <<" ">>
             ELSE <<>>)
            \o <<"(">>
            \o FieldQuery(StrOf(ArgGet(search_terms[i], <<"t", "e", "r", "m">>, PyStr(<<>>))),
                          ArgGet(search_terms[i], <<"f", "i", "e", "l", "d">>, PyStr(<<"a", "l", "l">>)))
            \o <<")">>
        query == Join(<<>>, [i \in 1..Len(search_terms) |-> part(i)])
        any(xs, tag) ==
            <<"(">> \o Join(<<" ", "O", "R", " ">>, [i \in 1..Len(xs) |-> Quoted(xs[i], tag)]) \o <<")">>
        publication_types == ArgGet(filters, <<"p", "u", "b", "l", "i", "c", "a", "t", "i", "o", "n", "_", "t", "y", "p", "e", "s">>, PyNone)
        languages == ArgGet(filters, <<"l", "a", "n", "g", "u", "a", "g", "e", "s">>, PyNone)
        species == ArgGet(filters, <<"s", "p", "e", "c", "i", "e", "s">>, PyNone)
        filter_parts ==
            (IF Falsy(publication_types) THEN <<>>
             ELSE <<any(Texts(publication_types), <<"[", "P", "u", "b", "l", "i", "c", "a", "t", "i", "o", "n", " ", "T", "y", "p", "e", "]">>)>>)
            \o (IF Falsy(languages) THEN <<>> ELSE <<any(Texts(languages), <<"[", "L", "a", "n", "g", "u", "a", "g", "e", "]">>)>>)
            \o (IF /\ ~Falsy(species)
                   /\ \E i \in 1..PyLen(species) : Lower(Iter(species)[i].s) = <<"h", "u", "m", "a", "n", "s">>
                THEN <<<<"h", "u", "m", "a", "n", "s", "[", "M", "e", "S", "H", " ", "T", "e", "r", "m", "s", "]">>>> ELSE <<>>)
    IN  IF filter_parts = <<>> THEN query
        ELSE query \o <<" ", "A", "N", "D", " ">> \o Join(<<" ", "A", "N", "D", " ">>, filter_parts)

\* _handle_advanced_search up to search_articles
HandleAdvancedSearch(arguments) ==
    LET search_terms == ArgGet(arguments, <<"s", "e", "a", "r", "c", "h", "_", "t", "e", "r", "m", "s">>, PyVals(<<>>))
        filters == ArgGet(arguments, <<"f", "i", "l", "t", "e", "r", "s">>, PyObj(<<>>))
    IN  IF Falsy(search_terms) THEN Reply("Search terms are required")
        ELSE IF ~Iterable(search_terms) THEN Raise("TypeError")
        ELSE IF \E i \in 1..PyLen(search_terms) : Iter(search_terms)[i].t # "obj"
        THEN Raise("AttributeError")
        ELSE IF filters.t # "obj" THEN Raise("AttributeError")
        ELSE IF FilterFault(filters) # "none" THEN Raise(FilterFault(filters))
        ELSE Await(<<CallOf("search", PyStr(AdvancedQuery(Iter(search_terms), filters)),
                         [SearchDefaults EXCEPT
                             !.max_results = ArgGet(arguments, <<"m", "a", "x", "_", "r", "e", "s", "u", "l", "t", "s">>, PyInt(50))])>>)

\* handle_tool_call up to the client: None arguments and a name that
\* handler_map does not hold are answered at once, any other call goes to its
\* handler, where arguments.get raises AttributeError unless arguments is a
\* dict
HandlerPlan(name, arguments) ==
    IF arguments = PyNone THEN Reply("Error: Arguments cannot be None")
    ELSE IF name \notin HandledTools THEN Reply("Unknown tool: " \o name)
    ELSE IF arguments.t # "obj" THEN Raise("AttributeError")
    ELSE CASE name = "search_pubmed" -> HandleSearchPubmed(arguments)
           [] name = "get_article_details" -> HandleGetArticleDetails(arguments)
           [] name = "search_by_author" -> HandleSearchByAuthor(arguments)
           [] name = "find_related_articles" -> HandleFindRelatedArticles(arguments)
           [] name = "export_citations" -> HandleExportCitations(arguments)
           [] name = "search_mesh_terms" -> HandleSearchMeshTerms(arguments)
           [] name = "search_by_journal" -> HandleSearchByJournal(arguments)
           [] name = "get_trending_topics" -> HandleGetTrendingTopics(arguments)
           [] name = "analyze_research_trends" -> HandleAnalyzeResearchTrends(arguments)
           [] name = "compare_articles" -> HandleCompareArticles(arguments)
           [] name = "get_journal_metrics" -> HandleGetJournalMetrics(arguments)
           [] name = "advanced_search" -> HandleAdvancedSearch(arguments)

\* the arguments of the tool calls made
ToolArguments ==
    [search_pubmed |->
        {PyObj(<<<<<<"q", "u", "e", "r", "y">>, PyStr(Query)>>>>),
         PyObj(<<<<<<"q", "u", "e", "r", "y">>, PyStr(Query)>>, <<<<"m", "a", "x", "_", "r", "e", "s", "u", "l", "t", "s">>, PyInt(-5)>>,
                 <<<<"d", "a", "t", "e", "_", "r", "a", "n", "g", "e">>, PyStr(<<"5", "y">>)>>>>),
         PyObj(<<<<<<"m", "a", "x", "_", "r", "e", "s", "u", "l", "t", "s">>, PyInt(10)>>>>),
         PyObj(<<<<<<"q", "u", "e", "r", "y">>, PyInt(5)>>>>),
         PyObj(<<<<<<"q", "u", "e", "r", "y">>, PyStr(Query)>>, <<<<"m", "a", "x", "_", "r", "e", "s", "u", "l", "t", "s">>, PyStr(<<"3">>)>>>>),
         PyStr(Query)},
     get_article_details |->
        {PyObj(<<<<<<"p", "m", "i", "d", "s">>, PyStrs(<<Pmid, LetterPmid>>)>>>>),
         PyObj(<<<<<<"p", "m", "i", "d", "s">>, PyStr(Pmid)>>>>)},
     search_by_author |-> {PyObj(<<<<<<"a", "u", "t", "h", "o", "r", "_", "n", "a", "m", "e">>, PyStr(AuthorName)>>>>)},
     find_related_articles |->
        {PyObj(<<<<<<"p", "m", "i", "d">>, PyStr(Pmid)>>, <<<<"m", "a", "x", "_", "r", "e", "s", "u", "l", "t", "s">>, PyInt(1)>>>>),
         PyObj(<<<<<<"p", "m", "i", "d">>, PyStr(LetterPmid)>>>>),
         PyObj(<<<<<<"p", "m", "i", "d">>, PyInt(12345678)>>>>)},
     export_citations |->
        {PyObj(<<<<<<"p", "m", "i", "d", "s">>, PyStrs(<<Pmid>>)>>, <<<<"f", "o", "r", "m", "a", "t">>, PyStr(<<"a", "p", "a">>)>>>>)},
     search_mesh_terms |-> {PyObj(<<<<<<"t", "e", "r", "m">>, PyStr(Query)>>>>)},
     search_by_journal |->
        {PyObj(<<<<<<"j", "o", "u", "r", "n", "a", "l", "_", "n", "a", "m", "e">>, PyStr(<<"N", "a", "t", "u", "r", "e">>)>>,
                 <<<<"d", "a", "t", "e", "_", "f", "r", "o", "m">>, PyStr(<<"2", "0", "2", "3", "/", "0", "1", "/", "0", "1">>)>>>>)},
     get_trending_topics |->
        {PyObj(<<<<<<"d", "a", "y", "s">>, PyInt(1000000)>>>>)},
     analyze_research_trends |->
        {PyObj(<<<<<<"t", "o", "p", "i", "c">>, PyStr(Query)>>, <<<<"y", "e", "a", "r", "s", "_", "b", "a", "c", "k">>, PyInt(1)>>>>),
         PyObj(<<<<<<"t", "o", "p", "i", "c">>, PyStr(Query)>>, <<<<"y", "e", "a", "r", "s", "_", "b", "a", "c", "k">>, PyInt(-1)>>>>)},
     compare_articles |->
        {PyObj(<<<<<<"p", "m", "i", "d", "s">>, PyStrs(<<Pmid>>)>>>>),
         PyObj(<<<<<<"p", "m", "i", "d", "s">>, PyStrs(<<Pmid, Pmid2>>)>>>>),
         PyObj(<<<<<<"p", "m", "i", "d", "s">>, PyInt(5)>>>>)},
     get_journal_metrics |-> {PyObj(<<<<<<"j", "o", "u", "r", "n", "a", "l", "_", "n", "a", "m", "e">>, PyStr(<<"N", "a", "t", "u", "r", "e">>)>>>>)},
     advanced_search |->
        {PyObj(<<<<<<"s", "e", "a", "r", "c", "h", "_", "t", "e", "r", "m", "s">>,
                   PyVals(<<PyObj(<<<<<<"t", "e", "r", "m">>, PyStr(Query)>>, <<<<"f", "i", "e", "l", "d">>, PyStr(<<"t", "i", "t", "l", "e">>)>>>>),
                            PyObj(<<<<<<"t", "e", "r", "m">>, PyStr(<<"t", "h", "e", "r", "a", "p", "y">>)>>,
                                    <<<<"o", "p", "e", "r", "a", "t", "o", "r">>, PyStr(<<"O", "R">>)>>>>)>>)>>,
                 <<<<"f", "i", "l", "t", "e", "r", "s">>, PyObj(<<<<<<"s", "p", "e", "c", "i", "e", "s">>, PyStrs(<<<<"H", "u", "m", "a", "n", "s">>>>)>>,
                                       <<<<"s", "e", "x">>, PyStr(<<"f", "e", "m", "a", "l", "e">>)>>>>)>>>>)},
     no_such_tool |-> {PyObj(<<<<<<"q", "u", "e", "r", "y">>, PyStr(Query)>>>>)}]

\* the tool calls made: every name with an empty dict, search_pubmed with
\* None, and every name with the arguments above
ToolCalls ==
    {[name |-> n, arguments |-> PyObj(<<>>)] : n \in ToolNames}
        \cup {[name |-> "search_pubmed", arguments |-> PyNone]}
        \cup UNION {{[name |-> n, arguments |-> a] : a \in ToolArguments[n]} : n \in ToolNames}

\* what each of these calls does before the client is called
ToolPlans == [r \in ToolCalls |-> HandlerPlan(r.name, r.arguments)]

\* f[x] where the table f has x, else d
Lookup(f, x, d) == IF x \in DOMAIN f THEN f[x] ELSE d

\* HandlerPlan, read from the table for the calls above
PlanOf(name, arguments) ==
    Lookup(ToolPlans, [name |-> name, arguments |-> arguments], HandlerPlan(name, arguments))

\* the calls of operation op among calls
CallsIn(calls, op) == {calls[i] : i \in {j \in 1..Len(calls) : calls[j].op = op}}

\* the calls of operation op that the tool calls above lead to
HandlerCalls(op) == UNION {CallsIn(ToolPlans[r].calls, op) : r \in ToolCalls}

\* cache_key of a call
KeyOf(call) ==
    CASE call.op = "search" -> SearchKey(call.v, call.opts)
      [] call.op = "author_search" -> AuthorKey(call.v, call.opts)
      [] call.op = "related" -> RelatedKey(call.v, call.opts)
      [] call.op = "details" -> DetailsKey(ValidPmids(call.x), call.opts)

\* the cache key of each call made, by operation
CallKey ==
    [op \in {"search", "author_search", "related", "details"} |->
        [call \in {k \in ClientCalls \cup IdCalls : k.op = op} \cup HandlerCalls(op) |->
            KeyOf(call)]]

\* KeyOf, read from the table for the calls made
TaskKey(call) == Lookup(CallKey[call.op], call, KeyOf(call))

\* generate_key raises TypeError for the call: sorted() of one of the
\* keyword values does (get_article_details passes the valid identifiers,
\* which are strs)
KeyRaises(call) ==
    \/ call.op # "details" /\ KeyFault(call.v)
    \/ \E f \in DOMAIN call.opts : KeyFault(call.opts[f])

\* result_data["query"] of a call (get_article_details has none)
CallQuery(call) ==
    CASE call.op = "search" -> call.v
      [] call.op = "author_search" -> PyStr(<<"A", "u", "t", "h", "o", "r", ":", " ">> \o call.x)
      [] call.op = "related" -> PyStr(<<"R", "e", "l", "a", "t", "e", "d", " ", "t", "o", " ", "P", "M", "I", "D", ":", " ">> \o call.x)
      [] call.op = "details" -> PyStr(<<>>)

(* The upstream.  A GET ends in an exception of the HTTP client or in a     *)
(* response with a status and a body.                                       *)
TransportErrors == {"TimeoutException", "ConnectError"}

\* the JSON bodies of esearch / elink: unparsable, or a count and an id list
SearchBodies ==
    {[ok |-> FALSE],
     [ok |-> TRUE, count |-> 0, idlist |-> <<>>],
     [ok |-> TRUE, count |-> 7, idlist |-> <<>>],
     [ok |-> TRUE, count |-> 7, idlist |-> <<Rep("1", 8), Rep("2", 8)>>]}

\* the statuses of the responses that carry no usable body
ErrorStatuses == {429, 500}

SearchResponses ==
    {[kind |-> e] : e \in TransportErrors}
        \cup {[kind |-> "http", status |-> st, body |-> [ok |-> FALSE]] : st \in ErrorStatuses}
        \cup {[kind |-> "http", status |-> 200, body |-> b] : b \in SearchBodies}

\* a PubmedArticle node of an efetch payload: the text of its first PMID
\* element (<<>> when it has none), whether it has an Article element, and
\* whether Article(...) accepts the fields read from it
Node(pmid, article, valid) == [pmid |-> pmid, article |-> article, valid |-> valid]

\* the XML bodies of efetch for the ids asked for: unparsable, one
\* PubmedArticle node per id, or the same with the first node lacking its PMID
FetchBodies(ids) ==
    {[ok |-> FALSE],
     [ok |-> TRUE, nodes |-> [i \in 1..Len(ids) |-> Node(ids[i], TRUE, TRUE)]],
     [ok |-> TRUE, nodes |-> [i \in 1..Len(ids) |-> Node(IF i = 1 THEN <<>> ELSE ids[i], TRUE, TRUE)]]}

FetchResponses(ids) ==
    {[kind |-> e] : e \in TransportErrors}
        \cup {[kind |-> "http", status |-> st, body |-> [ok |-> FALSE]] : st \in ErrorStatuses}
        \cup {[kind |-> "http", status |-> 200, body |-> b] : b \in FetchBodies(ids)}

\* a raise_for_status() that never raises
IsSuccessAlways(status) == TRUE

\* response.raise_for_status() returns the response when its status is 2xx
IsSuccess(status) == 200 <= status /\ status <= 299

\* _make_request after the GET: the exception it raises, or "none"
RequestError(resp) ==
    IF resp.kind \in TransportErrors THEN resp.kind
    ELSE IF ~IsSuccess(resp.status) THEN "HTTPStatusError"
    ELSE "none"

\* how the GET ended: the exception of the HTTP client, or the status received
\* and whether the body received cannot be parsed (as JSON, as XML)
Received(resp) ==
    IF resp.kind \in TransportErrors THEN [kind |-> resp.kind, status |-> 0, malformed |-> FALSE]
    ELSE [kind |-> "http", status |-> resp.status, malformed |-> ~resp.body.ok]

NoResponse == [kind |-> "none", status |-> 0, malformed |-> FALSE]

\* l[:n] raises TypeError unless n is None, an int or a bool
SliceFault(n) == n.t \notin {"None", "int", "bool"}

\* l[:n] for n None, an int or a bool
Slice(l, n) ==
    IF n = PyNone THEN l
    ELSE IF Num(n) >= 0 THEN SubSeq(l, 1, Min(Num(n), Len(l)))
    ELSE IF Len(l) + Num(n) > 0 THEN SubSeq(l, 1, Len(l) + Num(n))
    ELSE <<>>

\* pmids = search_result.get("idlist", []);
\* related_pmids = linksetdb.get("links", [])[:max_results] (the id list of
\* an elink body is the links of its pubmed_pubmed linksetdb)
IdsOf(t, body) ==
    IF t.op = "related" THEN Slice(body.idlist, t.opts.max_results) ELSE body.idlist

\* a total that counts the identifiers returned instead of reading the count
TotalResultsListed(t, body) == Len(IdsOf(t, body))

\* total_results = int(search_result.get("count", 0)); len(related_pmids)
TotalResults(t, body) ==
    IF t.op = "related" THEN Len(IdsOf(t, body)) ELSE body.count

\* "if pmids:" in the operation and "if not pmids: return []" in
\* _fetch_article_details
HasIds(ids) == ids # <<>>

\* pmid_elem = article_elem.find(".//PMID"); "if pmid_elem is None: return None"
HasPmid(node) == node.pmid # <<>>

\* a _parse_single_article that takes the nodes without PMID as well
ParsesAnyPmid(node) == node.article /\ node.valid

\* _parse_single_article returns an Article: the node has a PMID and an
\* Article element, and nothing raised while the fields were read
Parses(node) == HasPmid(node) /\ node.article /\ node.valid

\* _parse_single_article: the Article of the node, or None (also when an
\* exception was caught)
ParseSingleArticle(node) == IF Parses(node) THEN [pmid |-> node.pmid] ELSE None

\* the loop over root.findall(".//PubmedArticle"): "if article: articles.append(article)"
ParsedArticles(nodes) ==
    LET kept == SelectSeq(nodes, Parses)
    IN  [i \in 1..Len(kept) |-> ParseSingleArticle(kept[i])]

\* _parse_pubmed_xml: [] for unparsable XML (ET.ParseError is caught), else
\* the articles of the nodes, in document order
ParsePubmedXml(body) ==
    IF body.ok THEN ParsedArticles(body.nodes) ELSE <<>>

\* result_data of the operation of task call, as the SearchResult returned
Envelope(call, total, articles) ==
    [query |-> CallQuery(call), total_results |-> total,
     returned_results |-> Len(articles), articles |-> articles]

\* cache_data: result_data with the articles dumped to dicts
CacheData(env) ==
    [kind |-> "dict", query |-> env.query, total_results |-> env.total_results,
     returned_results |-> env.returned_results, articles |-> env.articles,
     form |-> "dicts"]

\* the list get_article_details caches: the articles dumped to dicts
DetailsData(articles) == [kind |-> "list", articles |-> articles, form |-> "dicts"]

\* the list get_article_details returns: the articles as Article objects (an
\* empty list holds neither form)
DetailsResult(articles) ==
    IF articles = <<>> THEN DetailsData(<<>>)
    ELSE [kind |-> "list", articles |-> articles, form |-> "objects"]

\* "if cached_result:": None and the empty list are false
Truthy(value) == value # None /\ ~(value.kind = "list" /\ value.articles = <<>>)

\* [Article(**article_data) for article_data in cached_result["articles"]]
\* raises TypeError when an element is an Article already, not a dict
CanRebuild(value) == value.articles = <<>> \/ value.form = "dicts"

\* cached_result["articles"] = cached_articles: the dict held by the cache now
\* holds Article objects
Rebuilt(value) ==
    IF value.articles = <<>> THEN value ELSE [value EXCEPT !.form = "objects"]

\* SearchResult(**data) raises ValidationError unless data["query"] is a str
SearchResultFault(data) == IF data.query.t # "str" THEN "ValidationError" ELSE "none"

\* SearchResult(**cached_result)
FromCache(value) ==
    [query |-> value.query, total_results |-> value.total_results,
     returned_results |-> value.returned_results, articles |-> value.articles]

\* the store with the value under key replaced by value (the same dict object,
\* mutated in place)
Mutated(store, key, value) ==
    [i \in 1..Len(store) |->
        IF store[i].key = key THEN [store[i] EXCEPT !.value = value] ELSE store[i]]

NoResult == [kind |-> "NoResult"]
NoBody == [ok |-> FALSE]

IdleTask ==
    [pc |-> "idle", op |-> "none", x |-> <<>>, v |-> PyNone, opts |-> <<>>, rest |-> <<>>, fetchIds |-> <<>>, cached |-> FALSE, key |-> NoKey, path |-> "none",
     lookups |-> 0, found |-> None, hitDelta |-> 0, acquires |-> 0, acquired |-> 0,
     searchGets |-> 0, fetchGets |-> 0, sets |-> 0, lastResp |-> NoResponse,
     body |-> NoBody, status |-> "none", error |-> "none", result |-> NoResult]

NewTask(call, useCache) ==
    [IdleTask EXCEPT !.pc = "start", !.op = call.op, !.x = call.x, !.v = call.v,
                     !.opts = call.opts,
                     !.cached = useCache, !.key = TaskKey(call)]

InitClient ==
    /\ task = [c \in Callers |-> IdleTask]
    /\ opsStarted = 0

\* the operation of c raises
Raised(t, error) == [t EXCEPT !.pc = "done", !.status = "raised", !.error = error]

\* a _make_request that issues the GET without awaiting acquire()
MakeRequestUnawaited(c, t, endpoint) ==
    /\ AcquireCall(c)
    /\ task' = [task EXCEPT ![c] =
         [t EXCEPT !.acquires = @ + 1, !.pc = "get_" \o endpoint,
                   !.acquired = IF pc'[c] = "sleeping" THEN @ ELSE @ + 1,
                   !.searchGets = IF endpoint = "search" THEN @ + 1 ELSE @,
                   !.fetchGets = IF endpoint = "fetch" THEN @ + 1 ELSE @]]

\* _make_request up to the await of the GET: acquire(), then the GET is issued
\* unless acquire() sleeps or raises.  t is the task of c so far.
MakeRequest(c, t, endpoint) ==
    /\ AcquireCall(c)
    /\ task' = [task EXCEPT ![c] =
         LET a == [t EXCEPT !.acquires = @ + 1] IN
         IF pc'[c] = "sleeping" THEN [a EXCEPT !.pc = "sleep_" \o endpoint]
         ELSE IF outcome'[c] = "raised" THEN Raised(a, "ZeroDivisionError")
         ELSE [a EXCEPT !.pc = "get_" \o endpoint, !.acquired = @ + 1,
                        !.searchGets = IF endpoint = "search" THEN @ + 1 ELSE @,
                        !.fetchGets = IF endpoint = "fetch" THEN @ + 1 ELSE @]]

\* a cache hit of task t, r what cache.get returned on the counters st: the
\* operation rebuilds the cached result and returns it, or raises
HitTask(st, t, r) ==
    IF CanRebuild(r.value) /\ SearchResultFault(r.value) = "none"
    THEN [t EXCEPT !.path = "hit", !.lookups = 1, !.found = r.value,
                   !.hitDelta = CMGetCount(st, r.value).hits - st.hits,
                   !.pc = "done", !.status = "returned", !.result = FromCache(r.value)]
    ELSE Raised([t EXCEPT !.path = "hit", !.lookups = 1, !.found = r.value,
                          !.hitDelta = CMGetCount(st, r.value).hits - st.hits],
                IF CanRebuild(r.value) THEN "ValidationError" ELSE "TypeError")

\* build_search_query raises TypeError: authors, journals or mesh_terms is
\* true and cannot be iterated
BuildFault(o) ==
    \/ ~Falsy(o.authors) /\ ~Iterable(o.authors)
    \/ ~Falsy(o.journals) /\ ~Iterable(o.journals)
    \/ ~Falsy(o.mesh_terms) /\ ~Iterable(o.mesh_terms)

\* the operation of task t after cache.get returned r (read only when a cache
\* was passed): a hit returns the cached result, a miss leaves the task at
\* "start", where the operation goes on to _make_request, unless
\* search_articles raises when it builds its query
Looked(store, st, t, r, useCache) ==
    IF useCache /\ Truthy(r.value)
    THEN [store |-> IF CanRebuild(r.value)
                    THEN Mutated(r.store, t.key, Rebuilt(r.value))
                    ELSE r.store,
          stats |-> CMGetCount(st, r.value),
          task |-> HitTask(st, t, r)]
    ELSE [store |-> IF useCache THEN r.store ELSE store,
          stats |-> IF useCache /\ ~r.raised THEN CMGetCount(st, r.value) ELSE st,
          task |-> LET m == [t EXCEPT !.path = "miss", !.lookups = IF useCache THEN 1 ELSE 0]
                   IN  IF t.op = "search" /\ BuildFault(t.opts) THEN Raised(m, "TypeError")
                       ELSE m]

\* "if not validate_pmid(pmid): raise ValueError" in find_related_articles:
\* the exception raised, or "none".  isdigit() is called on a pmid that is
\* true, and raises AttributeError unless the pmid is a str
PmidFault(pmid) ==
    IF Falsy(pmid) THEN "ValueError"
    ELSE IF pmid.t # "str" THEN "AttributeError"
    ELSE IF ~ValidatePmid(pmid.s) THEN "ValueError"
    ELSE "none"

\* the operation of task t from its call to its return, its raise or its
\* first _make_request, on the store and the counters given:
\* find_related_articles validates the pmid; then, with a cache, the key is
\* generated and the cache is looked up
Entered(store, st, t, useCache) ==
    IF t.op = "related" /\ PmidFault(t.v) # "none"
    THEN [store |-> store, stats |-> st, task |-> Raised(t, PmidFault(t.v))]
    ELSE IF useCache /\ KeyRaises(t)
    THEN [store |-> store, stats |-> st, task |-> Raised(t, "TypeError")]
    ELSE Looked(store, st, t, TTLGet(store, t.key, now), useCache)

\* an operation from its call on
OpLookup(store, st, call, useCache) == Entered(store, st, NewTask(call, useCache), useCache)

\* the operations calls, called one after the other by one caller, up to the
\* first that raises or reaches _make_request: an operation that returns from
\* the cache is followed by the next call at once.  n operations have begun
\* before; the calls left are kept in the task.
RECURSIVE RunCalls(_, _, _, _, _)

\* r is what the first of calls did
Followed(r, calls, useCache, n) ==
    IF r.task.status = "returned" /\ Tail(calls) # <<>>
    THEN RunCalls(r.store, r.stats, Tail(calls), useCache, n + 1)
    ELSE [store |-> r.store, stats |-> r.stats, started |-> n + 1,
          task |-> [r.task EXCEPT !.rest = IF r.task.pc = "done" THEN <<>> ELSE Tail(calls)]]

RunCalls(store, st, calls, useCache, n) ==
    Followed(OpLookup(store, st, Head(calls), useCache), calls, useCache, n)

\* coroutine c goes on as RunCalls found: the cache and the counters are as
\* the lookups left them, and the operation that missed issues its first
\* _make_request up to its first await
Proceed(c, r) ==
    /\ opsStarted + r.started <= MaxClientOps
    /\ opsStarted' = opsStarted + r.started
    /\ cache' = r.store
    /\ stats' = r.stats
    /\ UNCHANGED <<maxsize, ttl>>
    /\ IF r.task.pc = "start"
       THEN MakeRequest(c, r.task, "search")
       ELSE /\ task' = [task EXCEPT ![c] = r.task]
            /\ UNCHANGED limVars

\* the end of the operation: the result is cached, if a cache was passed, and
\* returned as a SearchResult, which raises when the query is not a str; a caller that has further calls to make (the loop of
\* _handle_analyze_research_trends) makes the next one at once
Finish(c, t, total, articles) ==
    LET env == Envelope(t, total, articles)
        s == TTLSet(cache, t.key, CacheData(env), now)
        u == [t EXCEPT !.sets = IF t.cached THEN @ + 1 ELSE @]
    IN  IF t.rest = <<>> \/ SearchResultFault(env) # "none"
        THEN /\ IF t.cached THEN SetCall(t.key, CacheData(env)) ELSE UNCHANGED cacheVars
             /\ task' = [task EXCEPT ![c] =
                  IF SearchResultFault(env) # "none" THEN Raised(u, SearchResultFault(env))
                  ELSE [u EXCEPT !.pc = "done", !.status = "returned", !.result = env]]
             /\ UNCHANGED <<limVars, opsStarted>>
        ELSE Proceed(c, RunCalls(IF t.cached THEN s.store ELSE cache,
                                 IF t.cached THEN CMSetStats(s.ok) ELSE stats,
                                 t.rest, t.cached, 0))

\* the end of get_article_details: the articles are cached as dicts, if a
\* cache was passed, and returned as Article objects
FinishDetails(c, t, articles) ==
    /\ IF t.cached THEN SetCall(t.key, DetailsData(articles)) ELSE UNCHANGED cacheVars
    /\ task' = [task EXCEPT ![c] =
         [t EXCEPT !.pc = "done", !.status = "returned", !.result = DetailsResult(articles),
                   !.sets = IF t.cached THEN @ + 1 ELSE @]]

vars == <<now, limVars, limHist, cacheVars, cacheHist, keyVars, srvVars, callVars, cliVars>>

(***************************************************************************)
(* SpecLimiter: coroutines calling acquire() on one RateLimiter.           *)
(***************************************************************************)
\* a coroutine calls acquire()
Acquire(c) ==
    /\ pc[c] = "idle"
    /\ AcquireCall(c)
    /\ Observed(c)
    /\ UNCHANGED <<now, cacheVars, cacheHist, keyVars, srvVars, callVars, cliVars>>

\* a sleeping coroutine resumes in acquire()
Wake(c) ==
    /\ WakeCall(c)
    /\ Observed(c)
    /\ UNCHANGED <<now, cacheVars, cacheHist, keyVars, srvVars, callVars, cliVars>>

\* the clock advances
Tick ==
    /\ now < MaxTime
    /\ now' = now + 1
    /\ run' = IF run.calls >= 1 /\ \A c \in Callers : pc[c] = "idle" THEN BrokenRun ELSE run
    /\ UNCHANGED <<limVars, used, window, cacheVars, cacheHist, keyVars, srvVars, callVars, cliVars>>

NextLimiter ==
    \/ \E c \in Callers : Acquire(c)
    \/ \E c \in Callers : Wake(c)
    \/ Tick

(***************************************************************************)
(* SpecCache: calls on one CacheManager.                                   *)
(***************************************************************************)
\* CacheManager.get(key)
Get(key) ==
    /\ getCalls + setCalls < MaxOps
    /\ GetCall(key)
    /\ getCalls' = getCalls + 1
    /\ lastGet' = [called |-> TRUE, key |-> key,
                    raised |-> CMGet(TTLGet(cache, key, now)).raised,
                    value |-> CMGet(TTLGet(cache, key, now)).value]
    /\ lastSet' = NoSet
    /\ lastUsed' = IF key \in CacheKeys /\ CMGet(TTLGet(cache, key, now)).value # None
                   THEN [lastUsed EXCEPT ![key] = getCalls + setCalls + 1]
                   ELSE lastUsed
    /\ UNCHANGED <<now, limVars, limHist, keyVars, srvVars, callVars, cliVars, setCalls>>

\* CacheManager.set(key, value)
Set(key, value) ==
    /\ getCalls + setCalls < MaxOps
    /\ SetCall(key, value)
    /\ setCalls' = setCalls + 1
    /\ lastGet' = NoGet
    /\ lastSet' = [called |-> TRUE, key |-> key,
                    raised |-> CMSet(TTLSet(cache, key, value, now)).raised]
    /\ lastUsed' = IF key \in CacheKeys /\ TTLSet(cache, key, value, now).ok
                   THEN [lastUsed EXCEPT ![key] = getCalls + setCalls + 1]
                   ELSE lastUsed
    /\ UNCHANGED <<now, limVars, limHist, keyVars, srvVars, callVars, cliVars, getCalls>>

\* a clear() that resets the counters too
ClearWithCounters ==
    /\ cache' = <<>>
    /\ stats' = [hits |-> 0, misses |-> 0, sets |-> 0]
    /\ lastGet' = NoGet
    /\ lastSet' = NoSet
    /\ UNCHANGED <<now, limVars, limHist, keyVars, srvVars, callVars, cliVars, maxsize, ttl, getCalls, setCalls, lastUsed>>

\* CacheManager.clear()
Clear ==
    /\ cache' = <<>>
    /\ lastGet' = NoGet
    /\ lastSet' = NoSet
    /\ UNCHANGED <<now, limVars, limHist, keyVars, srvVars, callVars, cliVars, maxsize, ttl, stats, getCalls, setCalls, lastUsed>>

\* CacheManager.get_stats(): len(self.cache) expires the dead entries
GetStats ==
    /\ cache' = Expire(cache, now)
    /\ lastGet' = NoGet
    /\ lastSet' = NoSet
    /\ UNCHANGED <<now, limVars, limHist, keyVars, srvVars, callVars, cliVars, maxsize, ttl, stats, getCalls, setCalls, lastUsed>>

\* the clock advances between two cache calls
CacheTick ==
    /\ now < MaxCacheTime
    /\ now' = now + 1
    /\ lastGet' = NoGet
    /\ lastSet' = NoSet
    /\ UNCHANGED <<limVars, limHist, keyVars, srvVars, callVars, cliVars, cache, maxsize, ttl, stats, getCalls, setCalls, lastUsed>>

NextCache ==
    \/ \E k \in AllKeys : Get(k)
    \/ \E k \in AllKeys, v \in CacheValues : Set(k, v)
    \/ Clear
    \/ GetStats
    \/ CacheTick

(***************************************************************************)
(* SpecKey: two generate_key calls.                                        *)
(***************************************************************************)
NextKey ==
    \/ GenerateKeyA
    \/ GenerateKeyB

(***************************************************************************)
(* SpecClient: coroutines running PubMedClient operations on one client    *)
(* and one cache.                                                          *)
(***************************************************************************)
\* the operations calls are called by c, one after the other
BeginOps(c, calls, useCache) ==
    /\ task[c].pc \in {"idle", "done"}
    /\ UNCHANGED <<now, limHist, cacheHist, keyVars, srvVars>>
    /\ Proceed(c, RunCalls(cache, stats, calls, useCache, 0))

\* an operation is called: the cache lookup, and on a miss (or without cache)
\* the first _make_request up to its first await
BeginOp(c, call, useCache) == BeginOps(c, <<call>>, useCache)

\* an operation is called by its caller directly
StartOp(c, call, useCache) ==
    /\ BeginOp(c, call, useCache)
    /\ UNCHANGED callVars

\* get_article_details before the cache: the exception the filtering of the
\* identifiers raises, or "none".  Iterating None, an int or a bool raises
\* TypeError; validate_pmid calls isdigit() on an item that is true and not
\* a str (AttributeError); and with an item left out, set(pmids) is built for
\* the warning and raises TypeError when an item is a list or a dict
DetailsFault(pmids) ==
    IF ~Iterable(pmids) THEN "TypeError"
    ELSE IF \E i \in 1..PyLen(pmids) : ~IsStr(Iter(pmids)[i]) /\ ~Falsy(Iter(pmids)[i])
    THEN "AttributeError"
    ELSE IF /\ \E i \in 1..PyLen(pmids) :
                  ~IsStr(Iter(pmids)[i]) \/ ~ValidatePmid(Iter(pmids)[i].s)
            /\ \E i \in 1..PyLen(pmids) : Iter(pmids)[i].t \in {"strs", "vals", "obj"}
    THEN "TypeError"
    ELSE "none"

\* get_article_details as task t, r what cache.get returns on its key: the
\* identifiers are filtered, and with a valid one left the cache lookup and,
\* on a miss (or without cache), _fetch_article_details up to the first await
\* of its _make_request
DetailsTask(c, t, valid_pmids, r, useCache) ==
    IF DetailsFault(t.v) # "none"
    THEN /\ task' = [task EXCEPT ![c] = Raised(t, DetailsFault(t.v))]
         /\ UNCHANGED <<limVars, cacheVars>>
    ELSE IF ~HasIds(valid_pmids)
    THEN /\ task' = [task EXCEPT ![c] =
              [t EXCEPT !.pc = "done", !.status = "returned",
                        !.result = DetailsData(<<>>)]]
         /\ UNCHANGED <<limVars, cacheVars>>
    ELSE IF useCache /\ KeyRaises(t)
    THEN /\ task' = [task EXCEPT ![c] = Raised(t, "TypeError")]
         /\ UNCHANGED <<limVars, cacheVars>>
    ELSE IF useCache /\ Truthy(r.value)
    THEN /\ GetCall(t.key)
         /\ task' = [task EXCEPT ![c] =
              [t EXCEPT !.path = "hit", !.lookups = 1, !.found = r.value,
                        !.hitDelta = stats'.hits - stats.hits,
                        !.pc = "done", !.status = "returned",
                        !.result = DetailsResult(r.value.articles)]]
         /\ UNCHANGED limVars
    ELSE /\ IF useCache THEN GetCall(t.key) ELSE UNCHANGED cacheVars
         /\ MakeRequest(c, [t EXCEPT !.path = "miss", !.fetchIds = valid_pmids,
                                      !.lookups = IF useCache THEN 1 ELSE 0],
                            "fetch")

\* get_article_details as task t from its call on
DetailsEntered(c, t, useCache) ==
    DetailsTask(c, t, ValidPmids(t.x), TTLGet(cache, t.key, now), useCache)

\* get_article_details is called
DetailsOp(c, call, useCache) ==
    /\ task[c].pc \in {"idle", "done"}
    /\ opsStarted < MaxClientOps
    /\ opsStarted' = opsStarted + 1
    /\ UNCHANGED <<now, limHist, cacheHist, keyVars, srvVars>>
    /\ DetailsEntered(c, NewTask(call, useCache), useCache)

\* get_article_details is called by its caller directly, with the keyword
\* arguments at their defaults
GetArticleDetails(c, pmids, useCache) ==
    /\ DetailsOp(c, Call("details", pmids), useCache)
    /\ UNCHANGED callVars

\* acquire() returns after its sleep and _make_request issues the GET
ClientWake(c) ==
    /\ task[c].pc \in {"sleep_search", "sleep_fetch"}
    /\ WakeCall(c)
    /\ task' = [task EXCEPT ![c] =
         [@ EXCEPT !.pc = IF @ = "sleep_search" THEN "get_search" ELSE "get_fetch",
                   !.acquired = @ + 1,
                   !.searchGets = IF task[c].pc = "sleep_search" THEN @ + 1 ELSE @,
                   !.fetchGets = IF task[c].pc = "sleep_fetch" THEN @ + 1 ELSE @]]
    /\ UNCHANGED <<now, limHist, cacheVars, cacheHist, keyVars, srvVars, callVars, opsStarted>>

\* the esearch / elink GET ends: the operation raises, or parses the ids and
\* either fetches the details or returns the empty result
SearchResponse(c, resp) ==
    /\ task[c].pc = "get_search"
    /\ UNCHANGED <<now, limHist, cacheHist, keyVars, srvVars, callVars>>
    /\ LET t == [task[c] EXCEPT !.lastResp = Received(resp)] IN
       IF RequestError(resp) # "none"
       THEN /\ task' = [task EXCEPT ![c] = Raised(t, RequestError(resp))]
            /\ UNCHANGED <<limVars, cacheVars, opsStarted>>
       ELSE IF ~resp.body.ok
       THEN /\ task' = [task EXCEPT ![c] = Raised(t, "JSONDecodeError")]
            /\ UNCHANGED <<limVars, cacheVars, opsStarted>>
       ELSE IF t.op = "related" /\ SliceFault(t.opts.max_results)
       THEN /\ task' = [task EXCEPT ![c] = Raised(t, "TypeError")]
            /\ UNCHANGED <<limVars, cacheVars, opsStarted>>
       ELSE LET u == [t EXCEPT !.body = resp.body, !.fetchIds = IdsOf(t, resp.body)] IN
            IF HasIds(IdsOf(t, resp.body))
            THEN /\ MakeRequest(c, u, "fetch")
                 /\ UNCHANGED <<cacheVars, opsStarted>>
            ELSE Finish(c, u, TotalResults(t, resp.body), <<>>)

\* the efetch GET ends: the operation raises, or parses the articles and returns
FetchResponse(c, resp) ==
    /\ task[c].pc = "get_fetch"
    /\ UNCHANGED <<now, limHist, cacheHist, keyVars, srvVars, callVars>>
    /\ LET t == [task[c] EXCEPT !.lastResp = Received(resp)] IN
       IF RequestError(resp) # "none"
       THEN /\ task' = [task EXCEPT ![c] = Raised(t, RequestError(resp))]
            /\ UNCHANGED <<limVars, cacheVars, opsStarted>>
       ELSE IF t.op = "details"
       THEN /\ FinishDetails(c, t, ParsePubmedXml(resp.body))
            /\ UNCHANGED <<limVars, opsStarted>>
       ELSE Finish(c, t, TotalResults(t, t.body), ParsePubmedXml(resp.body))

\* the clock advances
ClientTick ==
    /\ now < MaxClientTime
    /\ now' = now + 1
    /\ UNCHANGED <<limVars, limHist, cacheVars, cacheHist, keyVars, srvVars, callVars, cliVars>>

NextClient ==
    \/ \E c \in Callers, call \in ClientCalls, useCache \in BOOLEAN : StartOp(c, call, useCache)
    \/ \E c \in Callers : ClientWake(c)
    \/ \E c \in Callers, resp \in SearchResponses : SearchResponse(c, resp)
    \/ \E c \in Callers :
          /\ task[c].pc = "get_fetch"
          /\ \E resp \in FetchResponses(task[c].fetchIds) : FetchResponse(c, resp)
    \/ ClientTick

(***************************************************************************)
(* SpecIds: find_related_articles and get_article_details called with      *)
(* identifiers as callers supply them.                                     *)
(***************************************************************************)
NextIds ==
    \/ \E c \in Callers, p \in PmidArgs \ {Pmid}, useCache \in BOOLEAN :
          StartOp(c, Call("related", p), useCache)
    \/ \E c \in Callers, ps \in PmidLists, useCache \in BOOLEAN :
          GetArticleDetails(c, ps, useCache)
    \/ \E c \in Callers : ClientWake(c)
    \/ \E c \in Callers :
          /\ task[c].pc = "get_fetch"
          /\ \E resp \in FetchResponses(task[c].fetchIds) : FetchResponse(c, resp)
    \/ ClientTick

(***************************************************************************)
(* Calls of one function on its own: arg names the function and holds its  *)
(* argument, ret holds what the call returned.                             *)
(***************************************************************************)
NoCall == [fn |-> "none"]
NoRet == [kind |-> "NoRet"]

IdleCall ==
    /\ arg = NoCall
    /\ ret = NoRet

(***************************************************************************)
(* ToolHandler.handle_tool_call (src/src/tool_handler.py).  arg[c] is the  *)
(* tool call of coroutine c, with the cache the handler was built with     *)
(* (cache is FALSE for a handler whose cache is None); its response is a   *)
(* function of the call and of the PubMedClient operation it started.      *)
(***************************************************************************)
\* the error response handle_tool_call gives without calling the client, or
\* "none": "if arguments is None", "if handler: ... else", and in the handlers
\* "if not query", "if not pmids", "if len(pmids) < 2 or len(pmids) > 5", ...
Rejection(name, arguments) ==
    IF PlanOf(name, arguments).kind = "reject" THEN PlanOf(name, arguments).text
    ELSE "none"

MCPResponse(is_error, text) == [kind |-> "response", is_error |-> is_error, text |-> text]

\* "except Exception" catches the exception: every exception of the model is
\* an Exception but asyncio.CancelledError, which is a BaseException
ExceptException(exc) == exc # "CancelledError"

\* a handler without its except clause: the exception leaves handle_tool_call
HandlerUncaught(t) == [kind |-> "raised", is_error |-> FALSE, text |-> t.error]

\* "except Exception as e: return MCPResponse(..., is_error=True)" in the
\* handler, for the plan or the operation t that raised: an exception that
\* the clause does not catch leaves the handler and, past the same clause of
\* handle_tool_call, goes to the caller
HandlerCaught(t) ==
    IF ExceptException(t.error) THEN MCPResponse(TRUE, t.error)
    ELSE [kind |-> "raised", is_error |-> FALSE, text |-> t.error]

\* a handler after its client operation returned result:
\* _handle_export_citations answers "if not articles" with an error and then
\* passes include_abstracts to format_multiple_citations, which does not
\* take it (TypeError); _handle_compare_articles answers
\* "if len(articles) < 2" with an error and then tests
\* "mesh_terms" in comparison_fields (TypeError for None, an int, a bool);
\* _handle_get_trending_topics and _handle_get_journal_metrics call .get on
\* each Article, which raises AttributeError; the others format the result
AfterClient(name, arguments, result) ==
    IF name = "export_citations"
    THEN IF result.articles = <<>>
         THEN MCPResponse(TRUE, "No articles found for the provided PMIDs")
         ELSE HandlerCaught([error |-> "TypeError"])
    ELSE IF name = "compare_articles"
    THEN IF Len(result.articles) < 2
         THEN MCPResponse(TRUE, "Not enough valid articles found for comparison")
         ELSE IF ~Iterable(ArgGet(arguments, <<"c", "o", "m", "p", "a", "r", "i", "s", "o", "n", "_", "f", "i", "e", "l", "d", "s">>,
                                  PyStrs(<<<<"a", "u", "t", "h", "o", "r", "s">>, <<"m", "e", "t", "h", "o", "d", "s">>, <<"c", "o", "n", "c", "l", "u", "s", "i", "o", "n", "s">>>>)))
         THEN HandlerCaught([error |-> "TypeError"])
         ELSE MCPResponse(FALSE, "results")
    ELSE IF name \in {"get_trending_topics", "get_journal_metrics"} /\ result.articles # <<>>
    THEN HandlerCaught([error |-> "AttributeError"])
    ELSE MCPResponse(FALSE, "results")

\* what handle_tool_call returns to coroutine c, once it returns
ToolResponse(c) ==
    IF arg[c] = NoCall THEN [kind |-> "none"]
    ELSE LET plan == PlanOf(arg[c].name, arg[c].arguments) IN
         IF plan.kind = "reject" THEN MCPResponse(TRUE, plan.text)
         ELSE IF plan.kind = "raise" THEN HandlerCaught(plan)
         ELSE IF plan.calls = <<>> THEN MCPResponse(FALSE, "results")
         ELSE IF task[c].pc # "done" THEN [kind |-> "pending"]
         ELSE IF task[c].status = "raised" THEN HandlerCaught(task[c])
         ELSE AfterClient(arg[c].name, arg[c].arguments, task[c].result)

InitTool ==
    /\ arg = [c \in Callers |-> NoCall]
    /\ ret = NoRet

\* handle_tool_call(name, arguments) by coroutine c on the handler built with
\* a cache (useCache) or with None, up to its return or to the first await
\* inside the client operation
ToolCall(c, name, arguments, useCache) ==
    /\ task[c].pc \in {"idle", "done"}
    /\ \A d \in Callers : arg[d] # NoCall => arg[d].cache = useCache
    /\ arg' = [arg EXCEPT ![c] = [fn |-> "handle_tool_call", name |-> name,
                                  arguments |-> arguments, cache |-> useCache]]
    /\ UNCHANGED ret
    /\ LET plan == PlanOf(name, arguments) IN
       IF plan.calls = <<>>
       THEN UNCHANGED <<now, limVars, limHist, cacheVars, cacheHist, keyVars, srvVars, cliVars>>
       ELSE IF plan.calls[1].op = "details"
       THEN DetailsOp(c, plan.calls[1], useCache)
       ELSE BeginOps(c, plan.calls, useCache)

\* the task that runs handle_tool_call for coroutine c is cancelled while
\* the client is suspended, in the sleep of acquire() or in its GET: the
\* await raises asyncio.CancelledError, and acquire() does not reach the
\* line that sets the tokens after the sleep
Cancel(c) ==
    /\ arg[c] # NoCall
    /\ task[c].pc \in {"sleep_search", "sleep_fetch", "get_search", "get_fetch"}
    /\ task' = [task EXCEPT ![c] = Raised(@, "CancelledError")]
    /\ IF pc[c] = "sleeping"
       THEN /\ pc' = [pc EXCEPT ![c] = "idle"]
            /\ outcome' = [outcome EXCEPT ![c] = "raised"]
            /\ UNCHANGED <<rate, tokens, last_update, wakeAt>>
       ELSE UNCHANGED limVars
    /\ UNCHANGED <<now, limHist, cacheVars, cacheHist, keyVars, srvVars, callVars, opsStarted>>

\* each coroutine calls handle_tool_call once, on the handler that the server
\* builds with its CacheManager (server.py:53)
NextTool ==
    \/ \E c \in Callers, r \in ToolCalls :
          /\ arg[c] = NoCall
          /\ ToolCall(c, r.name, r.arguments, TRUE)
    \/ \E c \in Callers : Cancel(c)
    \/ \E c \in Callers : ClientWake(c)
    \/ \E c \in Callers, resp \in SearchResponses : SearchResponse(c, resp)
    \/ \E c \in Callers :
          /\ task[c].pc = "get_fetch"
          /\ \E resp \in FetchResponses(task[c].fetchIds) : FetchResponse(c, resp)
    \/ ClientTick

(***************************************************************************)
(* PubMedMCPServer.run, shutdown and the signal handler                    *)
(* (src/src/server.py).  server.pc is where run() is.  server.sd[0] is the *)
(* shutdown() that run() awaits in its finally clause; server.sd[i] with   *)
(* i >= 1 is the shutdown() of the task that the signal handler creates at *)
(* the i-th signal.  A shutdown() is suspended once, in                    *)
(* await self.pubmed_client.close(); the other coroutines of the loop run  *)
(* in between.                                                             *)
(***************************************************************************)
MaxSignals == 1   \* SIGINT / SIGTERM deliveries while the loop runs

\* the steps of shutdown() that can fail: pubmed_client.close(),
\* cache.get_stats(), cache.clear()
ShutdownSteps == {"close", "get_stats", "clear"}

\* what a failing step raises: an Exception, or asyncio.CancelledError (the
\* task is cancelled while it awaits), which is a BaseException and not an
\* Exception
ExcClasses == {"Exception", "CancelledError"}

NoFault == [step |-> "none", exc |-> "none"]

\* what can fail inside one shutdown(): nothing, or one step with one class
Faults == {NoFault} \cup [step : ShutdownSteps, exc : ExcClasses]

\* how the serve part of run() ends: self.server.run(...) returns, or it (or
\* stdio_server()) raises
RunOutcomes == {"returned", "Exception", "CancelledError"}

NoShutdown == [pc |-> "none", fault |-> NoFault, raised |-> FALSE]

\* the server after __init__
NewServer ==
    [pc |-> "created", exit |-> "none", error |-> "none", closed |-> FALSE,
     shutdowns |-> 0, signals |-> 0, sd |-> [i \in 0..MaxSignals |-> NoShutdown]]

IdleServer == server = NewServer

\* shutdown() from its first line to the await of self.pubmed_client.close(),
\* where it is suspended
ShutdownBegin(srv, i) ==
    [srv EXCEPT !.shutdowns = @ + 1, !.sd[i].pc = "closing"]

\* shutdown() from the point where await self.pubmed_client.close() ends:
\* read the statistics (len(self.cache) expires the dead entries), clear the
\* cache.  The first step that fails skips the rest; the except clause logs
\* what it catches, and what it does not catch leaves shutdown()
Shutdown(srv, store, fault) ==
    [closed |-> srv.closed \/ fault.step # "close",
     store |-> IF fault.step = "none" THEN <<>>
               ELSE IF fault.step = "clear" THEN Expire(store, now)
               ELSE store,
     raised |-> fault.step # "none" /\ ~ExceptException(fault.exc)]

\* run() after its finally clause: it raises what shutdown() raised, else what
\* the try block raised (the except clause re-raises an Exception), else it
\* returns
RunEnd(srv, fault, shutdownRaised) ==
    [srv EXCEPT !.pc = "stopped",
                !.error = IF shutdownRaised THEN fault.exc ELSE @,
                !.exit = IF shutdownRaised \/ srv.error # "none" THEN "raised"
                         ELSE "returned"]

\* run() up to the await of self.server.run(...) inside stdio_server()
Serve ==
    /\ server.pc = "created"
    /\ server' = [server EXCEPT !.pc = "serving"]
    /\ UNCHANGED <<now, limVars, limHist, cacheVars, cacheHist, keyVars, callVars, cliVars>>

\* signal_handler: asyncio.create_task(self.shutdown()) while the loop runs;
\* the task is created and none of shutdown() has run yet
SignalShutdown ==
    /\ server.pc \in {"serving", "finally"}
    /\ server.signals < MaxSignals
    /\ server' = [server EXCEPT !.signals = @ + 1,
                                !.sd[server.signals + 1].pc = "created"]
    /\ UNCHANGED <<now, limVars, limHist, cacheVars, cacheHist, keyVars, callVars, cliVars>>

\* the loop runs the task of the i-th signal, while run() is suspended:
\* shutdown() up to its await
TaskStart(i) ==
    /\ server.sd[i].pc = "created"
    /\ server.pc \in {"serving", "finally"}
    /\ server' = ShutdownBegin(server, i)
    /\ UNCHANGED <<now, limVars, limHist, cacheVars, cacheHist, keyVars, callVars, cliVars>>

\* run() from the point where stdio_server() or the serve loop raises, or
\* the serve loop returns: the except clause logs and re-raises an Exception,
\* and the finally clause calls shutdown(), which runs up to its await
RunExit(how) ==
    /\ server.pc \in {"created", "serving"}
    /\ server.pc = "created" => how # "returned"
    /\ server' = ShutdownBegin([server EXCEPT !.pc = "finally",
                                              !.error = IF how = "returned" THEN "none" ELSE how],
                               0)
    /\ UNCHANGED <<now, limVars, limHist, cacheVars, cacheHist, keyVars, callVars, cliVars>>

\* the shutdown() i resumes from its await and runs to its end; fault is what
\* fails in it.  When it is the one of run(), run() ends.  Once run() has
\* ended the loop is closed, and the task of a signal that is still
\* suspended is cancelled
ShutdownEnd(i, fault) ==
    /\ server.sd[i].pc = "closing"
    /\ (i >= 1 /\ server.pc = "stopped") => fault = [step |-> "close", exc |-> "CancelledError"]
    /\ LET s == Shutdown(server, cache, fault)
           ended == [server EXCEPT !.closed = s.closed,
                                   !.sd[i] = [pc |-> "done", fault |-> fault,
                                              raised |-> s.raised]]
       IN  /\ server' = IF i = 0 THEN RunEnd(ended, fault, s.raised) ELSE ended
           /\ cache' = s.store
    /\ lastGet' = NoGet
    /\ lastSet' = NoSet
    /\ UNCHANGED <<now, limVars, limHist, maxsize, ttl, stats, getCalls, setCalls, lastUsed,
                   keyVars, callVars, cliVars>>

\* the cache keys of the tool calls served
ServedKeys == {"key1", "key2"}

\* while run() serves, tool calls read and fill the cache and time passes
NextServer ==
    \/ Serve
    \/ \E k \in ServedKeys : server.pc = "serving" /\ Get(k)
    \/ \E k \in ServedKeys : server.pc = "serving" /\ Set(k, Str("value1"))
    \/ server.pc = "serving" /\ CacheTick
    \/ SignalShutdown
    \/ \E i \in 1..MaxSignals : TaskStart(i)
    \/ \E how \in RunOutcomes : RunExit(how)
    \/ \E i \in 0..MaxSignals, f \in Faults : ShutdownEnd(i, f)

(***************************************************************************)
(* The specifications.                                                     *)
(***************************************************************************)

(***************************************************************************)
(* The inputs of the calls of _parse_pubmed_xml and validate_pmid.         *)
(***************************************************************************)
\* the PMIDs of the nodes of a payload, by position
NodeIds == [i \in 1..9 |-> Rep(Digits[i + 1], 8)]

\* the PubmedArticle nodes of a payload: each with or without its PMID, with
\* or without an Article element, with fields that Article(...) accepts or not
NodeLists ==
    UNION {{[i \in 1..n |-> Node(IF k[i].p THEN NodeIds[i] ELSE <<>>, k[i].a, k[i].v)] :
                k \in [1..n -> [p : BOOLEAN, a : BOOLEAN, v : BOOLEAN]]} : n \in 0..MaxNodes}

\* the efetch payloads: not XML at all, or a document with these nodes
Payloads == {[ok |-> FALSE]} \cup {[ok |-> TRUE, nodes |-> ns] : ns \in NodeLists}

InitParser ==
    /\ arg \in {[fn |-> "_parse_pubmed_xml", x |-> b] : b \in Payloads}
    /\ ret = NoRet

\* self._parse_pubmed_xml(xml_content)
ParseCall ==
    /\ arg.fn = "_parse_pubmed_xml"
    /\ ret = NoRet
    /\ ret' = [kind |-> "returned", value |-> ParsePubmedXml(arg.x)]
    /\ UNCHANGED <<now, limVars, limHist, cacheVars, cacheHist, keyVars, srvVars, cliVars, arg>>

NextParser == ParseCall


\* a limiter that is never used (SpecCache, SpecKey)
IdleLimiter ==
    /\ InitLimiter
    /\ rate = MaxRate

\* a cache that is never used (SpecLimiter, SpecKey)
IdleCache ==
    /\ InitCache
    /\ maxsize = MaxSize
    /\ ttl = MaxTtl

\* a client whose limiter has a rate of 0 or of one token per second and whose
\* cache, of any max_size from 0 to MaxSize, holds an entry for MaxTtl ticks
ClientConfig ==
    /\ rate \in {0, Scale}
    /\ ttl = MaxTtl

\* a client whose limiter has a rate of one token per second and whose cache
\* holds MaxSize entries for MaxTtl ticks
IdsConfig ==
    /\ rate = Scale
    /\ maxsize = MaxSize
    /\ ttl = MaxTtl

StartLimiter == now = 0 /\ InitLimiter /\ IdleCache /\ IdleKey /\ IdleCall /\ InitClient /\ IdleServer

StartCache == now = 0 /\ IdleLimiter /\ InitCache /\ IdleKey /\ IdleCall /\ InitClient /\ IdleServer

StartKey == now = 0 /\ IdleLimiter /\ IdleCache /\ InitKey /\ IdleCall /\ InitClient /\ IdleServer

StartClient == now = 0 /\ InitLimiter /\ InitCache /\ ClientConfig /\ IdleKey /\ IdleCall /\ InitClient /\ IdleServer

SpecLimiter == StartLimiter /\ [][NextLimiter]_vars

SpecCache == StartCache /\ [][NextCache]_vars

SpecKey == StartKey /\ [][NextKey]_vars

SpecClient == StartClient /\ [][NextClient]_vars

\* the strings given to validate_pmid: every string of a digit and a letter up
\* to MaxPmidLen characters, some identifiers, and strings with superscript
\* digits
PmidInputs ==
    UNION {[1..n -> {"7", "a"}] : n \in 0..MaxPmidLen}
        \cup {<<"1", "2", "3", "4", "5", "6", "7", "8">>, <<"1", "2", "3", "4", "5", "6", "7">>,
              <<"1", "2", "3", "4", "5", "6", "7", "8", "9", "a">>,
              <<"1", "2", "3", "4", "5", "6", "7", "8", "9">>, <<"1", "2", "3", "4", "5", "6">>,
              <<"1", "2", "3", "4", "5", "6", "7", "8", "9", "0">>,
              <<"1", "2", "3", "4", "5", "6", "7", "²">>, <<"²", "³", "¹", "²", "³", "¹", "²">>,
              <<"²", "³", "¹", "²", "³", "¹">>}

InitPmid ==
    /\ arg \in {[fn |-> "validate_pmid", x |-> s] : s \in PmidInputs}
    /\ ret = NoRet

\* validate_pmid(arg.x)
ValidateCall ==
    /\ arg.fn = "validate_pmid"
    /\ ret = NoRet
    /\ ret' = [kind |-> "returned", value |-> ValidatePmid(arg.x)]
    /\ UNCHANGED <<now, limVars, limHist, cacheVars, cacheHist, keyVars, srvVars, cliVars, arg>>

NextPmid == ValidateCall

StartPmid == now = 0 /\ IdleLimiter /\ IdleCache /\ IdleKey /\ InitPmid /\ InitClient /\ IdleServer

SpecPmid == StartPmid /\ [][NextPmid]_vars

StartIds == now = 0 /\ InitLimiter /\ InitCache /\ IdsConfig /\ IdleKey /\ IdleCall /\ InitClient /\ IdleServer

SpecIds == StartIds /\ [][NextIds]_vars

StartTool == now = 0 /\ InitLimiter /\ InitCache /\ IdsConfig /\ IdleKey /\ InitTool /\ InitClient /\ IdleServer

SpecTool == StartTool /\ [][NextTool]_vars

StartParser == now = 0 /\ IdleLimiter /\ IdleCache /\ IdleKey /\ InitParser /\ InitClient /\ IdleServer

SpecParser == StartParser /\ [][NextParser]_vars

\* the lengths of the string passed to generate_key as a="x...x": with the
\* five characters of "op:a=" the joined string has 100, KeyLimit - 1,
\* KeyLimit, KeyLimit + 1 and 260 characters
LongLens == {95, KeyLimit - 6, KeyLimit - 5, KeyLimit - 4, 255}

\* generate_key("op"), generate_key("op", a="x...x") and
\* generate_key("op", a="x...x", b=1)
LongKeyCalls ==
    {[args |-> <<<<"o", "p">>>>, kwargs |-> kws] :
        kws \in {<<>>}
            \cup {<<[k |-> <<"a">>, v |-> PyStr(Rep("x", n))]>> : n \in LongLens}
            \cup {<<[k |-> <<"a">>, v |-> PyStr(Rep("x", n))], [k |-> <<"b">>, v |-> PyInt(1)]>> :
                     n \in LongLens}}

InitLongKey ==
    /\ callA \in LongKeyCalls
    /\ callB \in LongKeyCalls
    /\ keyA = NoKey
    /\ keyB = NoKey

StartLongKey == now = 0 /\ IdleLimiter /\ IdleCache /\ InitLongKey /\ IdleCall /\ InitClient /\ IdleServer

SpecLongKey == StartLongKey /\ [][NextKey]_vars

StartServer == now = 0 /\ InitLimiter /\ InitCache /\ IdsConfig /\ IdleKey /\ IdleCall /\ InitClient /\ IdleServer

SpecServer == StartServer /\ [][NextServer]_vars

(***************************************************************************)
(* Claims about RateLimiter (SpecLimiter).                                 *)
(***************************************************************************)

\* C1: with one caller calling acquire() back to back or at any later times,
\* the calls completed in a window that opens with tokens = 0 and has lasted
\* T seconds number at most rate*T + 1.  In ticks: T*rate*Scale = now - start,
\* so the bound is count * Scale <= (now - start) + Scale.
RateBound ==
    (Cardinality(used) <= 1 /\ window.open)
        => window.count * Scale <= (now - window.start) + Scale

\* C2: in every reachable state 0 <= tokens <= rate, also when callers are
\* interleaved at the sleep.
TokenBound == 0 <= tokens /\ tokens <= rate

\* a caller sleeps in acquire() while another caller, which slept too, has been
\* granted, and the clock has moved on
TokenBoundWitness ==
    \E a, b \in Callers :
        /\ a # b
        /\ pc[a] = "sleeping"
        /\ outcome[b] = "granted"
        /\ window.open /\ window.count >= 1
        /\ now > last_update

\* C6: no acquire() call raises, whatever rate the limiter was built with.
AcquireNeverRaises == \A c \in Callers : outcome[c] # "raised"

\* C7: token decisions are serialized: no caller is inside acquire() (suspended
\* between its refill/test and its consume) while another caller is, so two
\* callers never wait for the same refilled token.
SerializedDecisions ==
    \A a, b \in Callers : a # b => ~(pc[a] = "sleeping" /\ pc[b] = "sleeping")

(***************************************************************************)
(* Claims about CacheManager (SpecCache).                                  *)
(***************************************************************************)

\* C4: hits + misses is the number of get calls made and sets is the number of
\* set calls made, also when the backing store faults.
StatsCountCalls ==
    /\ stats.hits + stats.misses = getCalls
    /\ stats.sets = setCalls

\* C5: get(key) returns the value last stored under key while less than ttl has
\* passed since it was stored and the entry is still held (not evicted or
\* cleared), and returns None once ttl has passed or when nothing is held
\* under key.
TtlReadBack ==
    [][\A k \in CacheKeys :
         Get(k) =>
            LET held == HasKey(cache, k)
                e == Entry(cache, k)
            IN  /\ (held /\ now < e.inserted_at + ttl) => lastGet'.value = e.value
                /\ (~held \/ now >= e.inserted_at + ttl) => lastGet'.value = None]_vars

\* a get has just returned None for a key whose expired entry is still in the
\* store, after another key was read back
TtlReadBackWitness ==
    /\ lastGet.called
    /\ lastGet.value = None
    /\ HasKey(cache, lastGet.key)
    /\ stats.hits >= 1

(***************************************************************************)
(* Claims about generate_key (SpecKey).                                    *)
(***************************************************************************)

\* what a call means: the operation name and the set of its non-None keyword
\* arguments, a list standing for the bag of its elements and a dict for the
\* set of its items
BagOf(xs) == [x \in {xs[i] : i \in 1..Len(xs)} |-> Cardinality({i \in 1..Len(xs) : xs[i] = x})]

Meaning(v) ==
    CASE v.t = "list" -> [t |-> "list", bag |-> BagOf(v.l)]
      [] v.t = "dict" -> [t |-> "dict", items |-> {v.d[i] : i \in 1..Len(v.d)}]
      [] OTHER -> v

Effective(call) ==
    [args |-> call.args,
     params |-> {<<call.kwargs[i].k, Meaning(call.kwargs[i].v)>> :
                    i \in {j \in 1..Len(call.kwargs) : call.kwargs[j].v # PyNone}}]

\* C8: two generate_key calls with the same operation name whose keyword
\* arguments differ only in their order, in None-valued arguments and in the
\* order of the elements of list and dict values return the same key.
KeyDeterminism ==
    (keyA # NoKey /\ keyB # NoKey /\ Effective(callA) = Effective(callB)) => keyA = keyB

\* both keys were generated for calls that pass a=1 and the list [1, 2] / [2, 1]
\* in opposite keyword order
KeyDeterminismWitness ==
    /\ keyA # NoKey /\ keyB # NoKey
    /\ callA.kwargs = <<[k |-> <<"a">>, v |-> PyInt(1)], [k |-> <<"b">>, v |-> PyList(<<1, 2>>)]>>
    /\ callB.kwargs = <<[k |-> <<"b">>, v |-> PyList(<<2, 1>>)], [k |-> <<"a">>, v |-> PyInt(1)]>>
    /\ keyA = keyB

(***************************************************************************)
(* Claims about the PubMedClient operations (SpecClient).                  *)
(***************************************************************************)

\* C3: an operation called with a cache that finds an unexpired entry of an
\* earlier identical call returns the envelope held by the cache, makes no
\* acquire() and no upstream GET, and raises the hits counter by exactly 1.
HitShortCircuits ==
    \A c \in Callers :
        task[c].path = "hit" =>
            /\ task[c].status = "returned"
            /\ task[c].result = FromCache(task[c].found)
            /\ task[c].acquires = 0
            /\ task[c].searchGets = 0
            /\ task[c].fetchGets = 0
            /\ task[c].hitDelta = 1

\* the GET ended in a timeout, a connection error or a status that is not 2xx
Failed(r) ==
    \/ r.kind \in {"TimeoutException", "ConnectError"}
    \/ r.kind = "http" /\ ~(r.status \in 200..299)

\* the exception a failed GET is reported with
FailureOf(r) == IF r.kind = "http" THEN "HTTPStatusError" ELSE r.kind

\* C9: when the GET an operation is waiting for fails (timeout, connection
\* error or non-2xx status), the operation ends by raising that failure, and
\* the step changes neither the stored entries nor the counters of the cache:
\* the operation has made no cache.set.
TransportFailurePropagates ==
    [][\A c \in Callers :
          (/\ task[c].pc \in {"get_search", "get_fetch"}
           /\ task'[c] # task[c]
           /\ Failed(task'[c].lastResp))
             => /\ task'[c].pc = "done"
                /\ task'[c].status = "raised"
                /\ task'[c].error = FailureOf(task'[c].lastResp)
                /\ task'[c].result = NoResult
                /\ task'[c].sets = 0
                /\ cache' = cache
                /\ stats' = stats]_vars

\* an operation called with a cache has raised the failure of its detail
\* fetch while the cache holds an entry stored by an earlier operation
TransportFailureWitness ==
    \E c \in Callers :
        /\ task[c].status = "raised"
        /\ task[c].cached
        /\ task[c].fetchGets = 1
        /\ Failed(task[c].lastResp)
        /\ cache # <<>>
        /\ stats.sets >= 1

\* C10: an operation that goes to the upstream issues its identifier search
\* at most once and its detail fetch at most once, the detail fetch only after
\* an identifier search that returned identifiers; an operation that returns
\* has issued exactly one identifier search, and one detail fetch exactly when
\* the identifier list was not empty; with no identifiers the envelope has no
\* articles, returned_results = 0 and, for the two searches, total_results
\* equal to the count the upstream reported.
UpstreamCallCount ==
    \A c \in Callers :
        LET t == task[c] IN
        t.path = "miss" =>
            /\ t.searchGets <= 1
            /\ t.fetchGets <= 1
            /\ t.pc = "get_search" => (t.searchGets = 1 /\ t.fetchGets = 0)
            /\ t.fetchGets = 1 => (t.searchGets = 1 /\ IdsOf(t, t.body) # <<>>)
            /\ t.status = "raised" => t.result = NoResult
            /\ t.status = "returned" =>
                  /\ t.searchGets = 1
                  /\ t.fetchGets = 1 <=> IdsOf(t, t.body) # <<>>
                  /\ IdsOf(t, t.body) = <<>> =>
                        /\ t.result.returned_results = 0
                        /\ t.result.articles = <<>>
                        /\ t.op \in {"search", "author_search"} =>
                              t.result.total_results = t.body.count

\* a search has returned the empty envelope for an upstream answer with a
\* positive count and no identifiers, after exactly one GET
UpstreamCallCountWitness ==
    \E c \in Callers :
        /\ task[c].op = "search"
        /\ task[c].status = "returned"
        /\ task[c].path = "miss"
        /\ task[c].searchGets = 1
        /\ task[c].fetchGets = 0
        /\ task[c].body.count > 0
        /\ task[c].result.total_results = task[c].body.count
        /\ task[c].result.articles = <<>>

\* C11: in an operation that goes to the upstream the cache lookup comes
\* first, every GET is issued after an acquire() of its own has returned with a
\* grant (the GETs issued never outnumber the completed acquisitions, and while
\* acquire() sleeps no GET of the operation is in flight), cache.set comes only
\* with the return, after the GETs, and an operation whose identifier list was
\* not empty has made exactly 2 acquisitions and 2 GETs.
AcquireBeforeRequest ==
    \A c \in Callers :
        LET t == task[c]
            gets == t.searchGets + t.fetchGets
        IN  t.path = "miss" =>
            /\ gets <= t.acquired
            /\ t.acquired <= t.acquires
            /\ t.cached => t.lookups = 1
            /\ t.pc \in {"get_search", "get_fetch"} =>
                  (pc[c] = "idle" /\ outcome[c] = "granted" /\ gets = t.acquires)
            /\ t.pc \in {"sleep_search", "sleep_fetch"} =>
                  (pc[c] = "sleeping" /\ gets = t.acquires - 1)
            /\ t.fetchGets = 1 => (t.searchGets = 1 /\ t.acquires = 2 /\ t.acquired = 2)
            /\ t.sets >= 1 => (t.sets = 1 /\ t.status = "returned" /\ t.searchGets = 1)
            /\ (t.status = "returned" /\ IdsOf(t, t.body) # <<>>) =>
                  (t.acquires = 2 /\ gets = 2)

\* an operation with a cache has missed, waited in acquire(), fetched the
\* details of a non-empty identifier list, stored its result and returned
AcquireBeforeRequestWitness ==
    \E c \in Callers :
        /\ task[c].status = "returned"
        /\ task[c].lookups = 1
        /\ task[c].acquires = 2
        /\ task[c].fetchGets = 1
        /\ task[c].sets = 1
        /\ task[c].result.returned_results >= 1
        /\ now >= 1

\* C12: _parse_pubmed_xml on a well-formed payload of N nodes of which exactly
\* one lacks its identifier returns the N-1 records of the other nodes, in
\* payload order; on any well-formed payload every well-formed node has its
\* record in the result whatever happened to its siblings, and the records
\* come in payload order.
ParserResilience ==
    (arg.fn = "_parse_pubmed_xml" /\ ret # NoRet /\ arg.x.ok) =>
        LET nodes == arg.x.nodes
            N == Len(nodes)
            out == ret.value
            lacking == {i \in 1..N : nodes[i].pmid = <<>>}
            sound(i) == nodes[i].pmid # <<>> /\ nodes[i].article /\ nodes[i].valid
        IN  /\ ret.kind = "returned"
            /\ (Cardinality(lacking) = 1 /\ \A i \in (1..N) \ lacking : sound(i)) =>
                   LET k == CHOOSE i \in lacking : TRUE
                   IN  /\ Len(out) = N - 1
                       /\ \A j \in 1..(N - 1) :
                              out[j].pmid = nodes[IF j < k THEN j ELSE j + 1].pmid
            /\ \A i \in 1..N : sound(i) => \E j \in 1..Len(out) : out[j].pmid = nodes[i].pmid
            /\ \A j, l \in 1..Len(out) :
                   j < l => \E i, m \in 1..N :
                               i < m /\ nodes[i].pmid = out[j].pmid /\ nodes[m].pmid = out[l].pmid

\* three nodes, the second without identifier, and the two others returned
ParserResilienceWitness ==
    /\ arg.fn = "_parse_pubmed_xml"
    /\ ret # NoRet
    /\ arg.x.ok
    /\ arg.x.nodes = <<Node(NodeIds[1], TRUE, TRUE), Node(<<>>, TRUE, TRUE), Node(NodeIds[3], TRUE, TRUE)>>
    /\ ret.value = <<[pmid |-> NodeIds[1]], [pmid |-> NodeIds[3]]>>


\* C13: an operation whose last GET was answered 200 with a body that cannot
\* be parsed (the JSON of the identifier search, the XML of the detail fetch)
\* does not raise: it returns a result without articles.
MalformedDegrades ==
    \A c \in Callers :
        LET t == task[c]
        IN  (t.pc = "done" /\ t.lastResp.kind = "http" /\ t.lastResp.status = 200
                /\ t.lastResp.malformed)
                => /\ t.status = "returned"
                   /\ t.result.articles = <<>>
                   /\ t.result.returned_results = 0

\* the digits of the claims: the decimal digits
ClaimDigits == {"0", "1", "2", "3", "4", "5", "6", "7", "8", "9"}

\* C15: validate_pmid(s) is true exactly when s is not empty, all its
\* characters are digits and its length is 7, 8 or 9.
ValidPmidExactly ==
    (arg.fn = "validate_pmid" /\ ret # NoRet) =>
        LET s == arg.x
            digits == ClaimDigits
        IN  /\ ret.kind = "returned"
            /\ ret.value <=> (/\ Len(s) > 0
                              /\ \A i \in 1..Len(s) : s[i] \in digits
                              /\ Len(s) \in 7..9)
            /\ s = <<"1", "2", "3", "4", "5", "6", "7", "8">> => ret.value
            /\ s = <<"1", "2", "3", "4", "5", "6", "7">> => ret.value
            /\ s = <<"1", "2", "3", "4", "5", "6", "7", "8", "9", "a">> => ~ret.value
            /\ s = <<>> => ~ret.value

\* an identifier of 7 to 9 characters that str.isdigit() takes for digits
SevenToNineDigits(p) ==
    /\ Len(p) \in 7..9
    /\ \A i \in 1..Len(p) : p[i] \in DigitChars

\* C14: a step of get_article_details never raises a validation error; the
\* identifiers it hands to the upstream fetch are the supplied ones that are
\* valid, in the order supplied; and when none is valid the call returns the
\* empty list in the step that starts it, with no cache lookup, no acquire()
\* and no GET, the cache and the bucket being left as they were.
IdentifierFiltering ==
    [][\A c \in Callers :
          (task'[c] # task[c] /\ task'[c].op = "details") =>
              LET t == task'[c]
                  valid == SelectSeq(t.x, SevenToNineDigits)
              IN  /\ t.error # "ValueError"
                  /\ t.acquires >= 1 => (valid # <<>> /\ t.fetchIds = valid)
                  /\ valid # <<>> => (t.acquires >= 1 \/ t.path = "hit")
                  /\ valid = <<>> =>
                         /\ t.pc = "done"
                         /\ t.status = "returned"
                         /\ t.result.articles = <<>>
                         /\ t.lookups = 0
                         /\ t.acquires = 0
                         /\ t.fetchGets = 0
                         /\ UNCHANGED <<cacheVars, limVars>>]_vars

\* a call with a valid, an invalid and a valid identifier has fetched the two
\* valid ones, and a call whose identifiers are all invalid has returned
IdentifierFilteringWitness ==
    \E c, d \in Callers :
        /\ task[c].op = "details"
        /\ task[c].x = <<Pmid2, LetterPmid, Pmid>>
        /\ task[c].fetchGets = 1
        /\ task[c].fetchIds = <<Pmid2, Pmid>>
        /\ task[c].status = "returned"
        /\ Len(task[c].result.articles) = 2
        /\ task[d].op = "details"
        /\ task[d].x = <<ShortPmid, LetterPmid>>
        /\ task[d].status = "returned"
        /\ Len(cache) >= 1

\* C16: find_related_articles called with an identifier that is not 7 to 9
\* digits raises ValueError in the step that starts it: no cache lookup, no
\* acquire() and no GET is made, and the entries and counters of the cache and
\* the state of the bucket are left as they were.
InvalidPmidRejected ==
    [][\A c \in Callers :
          (/\ task'[c] # task[c]
           /\ task[c].pc \in {"idle", "done"}
           /\ task'[c].op = "related"
           /\ ~SevenToNineDigits(task'[c].x)) =>
              /\ task'[c].pc = "done"
              /\ task'[c].status = "raised"
              /\ task'[c].error = "ValueError"
              /\ task'[c].lookups = 0
              /\ task'[c].acquires = 0
              /\ task'[c].searchGets = 0
              /\ task'[c].fetchGets = 0
              /\ UNCHANGED <<cacheVars, limVars>>]_vars

\* a call with a cache that holds an entry, for an identifier with a letter,
\* has raised
InvalidPmidRejectedWitness ==
    \E c \in Callers :
        /\ task[c].op = "related"
        /\ task[c].x = LetterPmid
        /\ task[c].cached
        /\ task[c].status = "raised"
        /\ task[c].error = "ValueError"
        /\ Len(cache) >= 1
        /\ stats.sets >= 1

\* C17: clear() leaves no entry (the size reported is 0) and leaves the hits,
\* misses and sets counters as they were; while the cache is empty and no set
\* is made it stays empty and every get returns None; no step makes any of
\* the three counters smaller.
ClearKeepsCounters ==
    [][/\ Clear => (cache' = <<>> /\ StatsSize' = 0 /\ stats' = stats)
       /\ (cache = <<>> /\ ~(\E k \in CacheKeys, v \in CacheValues : Set(k, v))) => cache' = <<>>
       /\ (cache = <<>> /\ \E k \in CacheKeys : Get(k)) => lastGet'.value = None
       /\ stats'.hits >= stats.hits
       /\ stats'.misses >= stats.misses
       /\ stats'.sets >= stats.sets]_vars

\* an entry was set and read, the cache was cleared at the same tick, and the
\* get that followed returned None
ClearKeepsCountersWitness ==
    /\ now = 0
    /\ maxsize >= 1
    /\ stats.sets >= 1
    /\ stats.hits >= 1
    /\ cache = <<>>
    /\ lastGet.called
    /\ lastGet.value = None

\* C18 as amended: no CacheManager.get and no CacheManager.set ends by raising;
\* a get whose lookup faults in the backing store returns None and leaves the
\* entries and the counters as they were; a set that faults in the backing
\* store (the key cannot be hashed, the value does not fit) stores nothing and
\* counts nothing: the entries after it are the entries before it that had not
\* expired, in the same order.
CacheFaultsAbsorbed ==
    [][/\ \A k \in AllKeys :
            Get(k) => /\ ~lastGet'.raised
                      /\ ~Hashable(k) => /\ lastGet'.value = None
                                         /\ cache' = cache
                                         /\ stats' = stats
       /\ \A k \in AllKeys, v \in CacheValues :
            Set(k, v) => /\ ~lastSet'.raised
                         /\ (~Hashable(k) \/ maxsize < 1) =>
                                /\ cache' = Expire(cache, now)
                                /\ stats' = stats]_vars

\* a set for a key that cannot be hashed has ended without raising while an
\* entry is held, after a get that faulted (it counted neither a hit nor a
\* miss)
CacheFaultsAbsorbedWitness ==
    /\ lastSet.called
    /\ lastSet.key = UnhashableKey
    /\ ~lastSet.raised
    /\ Len(cache) >= 1
    /\ stats.sets < setCalls
    /\ getCalls > stats.hits + stats.misses

\* C18 as stated: no CacheManager.get and no CacheManager.set ends by raising;
\* a get that faults returns None and leaves the stored entries unchanged; a set
\* that faults leaves the stored entries unchanged.
CacheFaultsChangeNothing ==
    [][/\ \A k \in AllKeys :
            Get(k) => /\ ~lastGet'.raised
                      /\ ~Hashable(k) => (lastGet'.value = None /\ cache' = cache)
       /\ \A k \in AllKeys, v \in CacheValues :
            Set(k, v) => /\ ~lastSet'.raised
                         /\ (~Hashable(k) \/ maxsize < 1) => cache' = cache]_vars

\* C19: in a run of consecutive acquire() calls of one caller, with no delay
\* between a return and the next call, the calls that returned without
\* sleeping are the first floor(rate) ones at most: every later call has slept.
BurstThenWait ==
    (run.live /\ \A c \in Callers : outcome[c] # "raised")
        => (run.calls - run.waited) * Scale <= rate

\* the argument a tool requires; get_trending_topics requires none
RequiredArgument ==
    [search_pubmed |-> <<"q", "u", "e", "r", "y">>, get_article_details |-> <<"p", "m", "i", "d", "s">>,
     search_by_author |-> <<"a", "u", "t", "h", "o", "r", "_", "n", "a", "m", "e">>, find_related_articles |-> <<"p", "m", "i", "d">>,
     export_citations |-> <<"p", "m", "i", "d", "s">>, search_mesh_terms |-> <<"t", "e", "r", "m">>,
     search_by_journal |-> <<"j", "o", "u", "r", "n", "a", "l", "_", "n", "a", "m", "e">>, analyze_research_trends |-> <<"t", "o", "p", "i", "c">>,
     compare_articles |-> <<"p", "m", "i", "d", "s">>, get_journal_metrics |-> <<"j", "o", "u", "r", "n", "a", "l", "_", "n", "a", "m", "e">>,
     advanced_search |-> <<"s", "e", "a", "r", "c", "h", "_", "t", "e", "r", "m", "s">>]

\* the call has None arguments, a name that is not a tool, or a dict of
\* arguments without the argument its tool requires
BadCall(called) ==
    \/ called.arguments = PyNone
    \/ called.name \notin DOMAIN RequiredArgument \cup {"get_trending_topics"}
    \/ /\ called.name \in DOMAIN RequiredArgument
       /\ called.arguments.t = "obj"
       /\ \A i \in 1..Len(called.arguments.d) :
              called.arguments.d[i][1] # RequiredArgument[called.name]

\* what C20 states of every step but "never raises": a call with None
\* arguments, with a name that is not a tool or without the argument its tool
\* requires is answered with is_error = True in the step that makes it, a step
\* that starts no client operation and changes neither cache nor bucket; a
\* call whose client operation raised an Exception is answered with
\* is_error = True; and the call of one coroutine changes neither the call
\* nor the operation of another
FailureScoped(c) ==
    /\ (arg'[c] # arg[c] /\ BadCall(arg'[c])) =>
           /\ ToolResponse(c)'.kind = "response"
           /\ ToolResponse(c)'.is_error
           /\ UNCHANGED <<cliVars, cacheVars, limVars>>
    /\ (arg'[c] # NoCall /\ task'[c] # task[c]
            /\ task'[c].pc = "done" /\ task'[c].status = "raised"
            /\ task'[c].error # "CancelledError") =>
           (ToolResponse(c)'.kind = "response" /\ ToolResponse(c)'.is_error)
    /\ arg'[c] # arg[c] =>
           \A d \in Callers \ {c} : arg'[d] = arg[d] /\ task'[d] = task[d]

\* C20: handle_tool_call never ends by raising an Exception, whatever the
\* types of its arguments: the only call that ends by raising is one whose
\* task was cancelled while the client was suspended, and it raises
\* asyncio.CancelledError; and a call with None arguments, with a name that
\* is not a tool or without the argument its tool requires is answered with
\* is_error = True in the step that makes it, a step that starts no client
\* operation and changes neither cache nor bucket; a call whose client
\* operation raised an Exception is answered with is_error = True; and the
\* call of one coroutine changes neither the call nor the operation of
\* another.
ToolCallRaisesNoException ==
    [][\A c \in Callers :
          /\ ToolResponse(c)'.kind = "raised" =>
                 /\ task'[c].status = "raised"
                 /\ task'[c].error = "CancelledError"
                 /\ ToolResponse(c)'.text = "CancelledError"
          /\ FailureScoped(c)]_vars

\* C20 as stated: handle_tool_call never ends by raising, and every call
\* whose client operation raised is answered with is_error = True.
ToolCallNeverRaises ==
    [][\A c \in Callers :
          /\ ToolResponse(c)'.kind # "raised"
          /\ (arg'[c] # NoCall /\ task'[c].pc = "done" /\ task'[c].status = "raised") =>
                 (ToolResponse(c)'.kind = "response" /\ ToolResponse(c)'.is_error)
          /\ FailureScoped(c)]_vars

\* one coroutine's search was answered with an error after its upstream GET
\* failed, and the other's call of an unknown tool was answered with an error
\* without a client operation
ToolCallNeverRaisesWitness ==
    \E c, d \in Callers :
        /\ arg[c] # NoCall
        /\ arg[c].name = "search_pubmed"
        /\ task[c].status = "raised"
        /\ task[c].error = "HTTPStatusError"
        /\ ToolResponse(c).kind = "response"
        /\ ToolResponse(c).is_error
        /\ arg[d] # NoCall
        /\ arg[d].name = "no_such_tool"
        /\ arg[d].arguments # PyNone
        /\ ToolResponse(d).is_error
        /\ task[d] = IdleTask
        /\ opsStarted = 1

(***************************************************************************)
(* Claims about PubMedMCPServer (SpecServer).                              *)
(***************************************************************************)
\* C21: whenever run() ends, by returning or by raising, it has executed
\* shutdown() on the way out; no shutdown() ends by raising, whatever fails
\* inside it; and when a shutdown() ends in which nothing failed the HTTP
\* client has been closed and the cache is empty.
GuaranteedTeardown ==
    [][/\ (server.pc # "stopped" /\ server'.pc = "stopped")
             => (server.sd[0].pc = "closing" /\ server'.sd[0].pc = "done")
       /\ \A i \in 0..MaxSignals :
             (server.sd[i].pc # "done" /\ server'.sd[i].pc = "done") =>
                 /\ ~server'.sd[i].raised
                 /\ server'.sd[i].fault = NoFault
                       => (server'.closed /\ cache' = <<>>)]_vars

(***************************************************************************)
(* Claims about _make_request (SpecClient).                                *)
(***************************************************************************)
\* C22: a first GET answered with the rate-limit status 429 does not make
\* _make_request raise: no operation ends by raising the HTTPStatusError of a
\* 429 response (the request is left to a further attempt).
RecoversFromRateLimit ==
    \A c \in Callers :
        ~(/\ task[c].status = "raised"
          /\ task[c].error = "HTTPStatusError"
          /\ task[c].lastResp.kind = "http"
          /\ task[c].lastResp.status = 429)

(***************************************************************************)
(* Claims about validate_pmid (SpecPmid).                                  *)
(***************************************************************************)
\* C23: validate_pmid(s) is true only for the 8-digit form: it is true when
\* s is 8 digits, and false when s is shorter ("1234567"), longer
\* ("123456789"), holds a character that is not a digit, or is empty.
OnlyEightDigits ==
    (arg.fn = "validate_pmid" /\ ret # NoRet) =>
        LET s == arg.x
            digits == ClaimDigits
        IN  /\ ret.kind = "returned"
            /\ ret.value <=> (/\ Len(s) = 8
                              /\ \A i \in 1..Len(s) : s[i] \in digits)

(***************************************************************************)
(* Claims about the cache hits of the dispatcher operations (SpecClient).  *)
(***************************************************************************)
\* C24: a cache hit of search_articles, search_by_author or
\* find_related_articles only reads the entry: the call returns, without an
\* acquire() or a GET, and the value stored under its key after the hit is
\* the value the lookup found (so that the next identical call finds the same).
HitOnlyReads ==
    [][\A c \in Callers :
          (/\ task'[c] # task[c]
           /\ task'[c].path = "hit"
           /\ task'[c].op \in {"search", "author_search", "related"})
             => /\ task'[c].status = "returned"
                /\ task'[c].acquires = 0
                /\ task'[c].searchGets + task'[c].fetchGets = 0
                /\ HasKey(cache', task'[c].key)
                /\ Entry(cache', task'[c].key).value = task'[c].found]_vars

(***************************************************************************)
(* Claims about the cache hits of get_article_details (SpecIds).           *)
(***************************************************************************)
\* C25: a get_article_details call that looks its key up treats the lookup as
\* a hit exactly when CacheManager.get counts a hit (an unexpired entry
\* exists, whatever list it holds), and on a hit it returns the articles of
\* the cached list without an acquire() or a GET.
DetailsHitShortCircuits ==
    [][\A c \in Callers :
          (/\ opsStarted' = opsStarted + 1
           /\ task'[c] # task[c]
           /\ task'[c].op = "details"
           /\ task'[c].lookups = 1)
             => /\ (stats'.hits = stats.hits + 1) <=> (task'[c].path = "hit")
                /\ task'[c].path = "hit"
                      => /\ task'[c].status = "returned"
                         /\ task'[c].result.articles = task'[c].found.articles
                         /\ task'[c].acquires = 0
                         /\ task'[c].fetchGets = 0]_vars

(***************************************************************************)
(* Claims about generate_key (SpecKey), continued.                         *)
(***************************************************************************)
\* the keyword arguments of a call that are not None, as (name, value) pairs
NonNoneParams(call) ==
    {<<call.kwargs[i].k, call.kwargs[i].v>> :
        i \in {j \in 1..Len(call.kwargs) : call.kwargs[j].v # PyNone}}

\* every keyword argument of the call is a string or None
StringParams(call) == \A i \in 1..Len(call.kwargs) : call.kwargs[i].v.t \in {"str", "None"}

\* C26: two generate_key calls for the same operation, with string-valued
\* parameters, whose sets of non-None parameters differ in a name or in a
\* value return different keys.
KeyInjective ==
    (/\ keyA # NoKey /\ keyB # NoKey
     /\ callA.args = callB.args
     /\ StringParams(callA) /\ StringParams(callB)
     /\ NonNoneParams(callA) # NonNoneParams(callB))
        => keyA # keyB

(***************************************************************************)
(* Claims about concurrent operations on one cache (SpecClient).           *)
(***************************************************************************)
\* c begins an operation with a cache and misses
BeginsMiss(c) ==
    /\ opsStarted' = opsStarted + 1
    /\ task'[c] # task[c]
    /\ task'[c].cached
    /\ task'[c].path = "miss"

\* c ends an operation with a cache that had missed, by returning
EndsMiss(c) ==
    /\ task[c].pc \in {"get_search", "get_fetch"}
    /\ task'[c].pc = "done"
    /\ task'[c].status = "returned"
    /\ task'[c].cached

\* the entries of the store under key
EntriesOf(store, key) == SelectSeq(store, LAMBDA e : e.key = key)

\* every entry of store under a key other than key is in old as it is
OthersKept(store, old, key) ==
    \A i \in 1..Len(store) :
        store[i].key # key => \E j \in 1..Len(old) : old[j] = store[i]

\* C27 as stated: each of the identical operations that miss counts one miss
\* and leaves the entries alone when it looks its key up, and counts one set
\* when it returns; the cache then holds exactly one entry under the key, the
\* result just returned, and the entries under the other keys are all still
\* there as they were.
ConcurrentMissesTouchOneKey ==
    [][\A c \in Callers :
          /\ BeginsMiss(c) => (stats'.misses = stats.misses + 1 /\ cache' = cache)
          /\ EndsMiss(c) =>
                /\ stats'.sets = stats.sets + 1
                /\ task'[c].sets = 1
                /\ Len(EntriesOf(cache', task'[c].key)) = 1
                /\ EntriesOf(cache', task'[c].key)[1].value = CacheData(task'[c].result)
                /\ OthersKept(cache', cache, task'[c].key)
                /\ OthersKept(Expire(cache, now), cache', task'[c].key)]_vars

\* C27, amended: each of the identical operations that miss counts one miss
\* and leaves the entries alone when it looks its key up, and calls set once
\* when it returns.  With max_size >= 1 the set is counted and the cache then
\* holds exactly one entry under the key, the result just returned; no entry
\* under another key is altered or added, and one can be gone only in two
\* ways: it had expired, or the key was not in the cache, the cache was full
\* and the entry was the least recently used one.  With max_size = 0 the set
\* is refused by the store and swallowed: it is not counted and the cache
\* stays empty.
ConcurrentMissesKeepCache ==
    [][\A c \in Callers :
          /\ BeginsMiss(c) => (stats'.misses = stats.misses + 1 /\ cache' = cache)
          /\ (EndsMiss(c) /\ maxsize >= 1) =>
                /\ stats'.sets = stats.sets + 1
                /\ task'[c].sets = 1
                /\ Len(EntriesOf(cache', task'[c].key)) = 1
                /\ EntriesOf(cache', task'[c].key)[1].value = CacheData(task'[c].result)
                /\ OthersKept(cache', cache, task'[c].key)
                /\ ~OthersKept(Expire(cache, now), cache', task'[c].key)
                      => /\ ~HasKey(Expire(cache, now), task'[c].key)
                         /\ Len(Expire(cache, now)) >= maxsize
                         /\ Without(cache', task'[c].key) = Tail(Expire(cache, now))
          /\ (EndsMiss(c) /\ maxsize < 1) =>
                /\ stats' = stats
                /\ task'[c].sets = 1
                /\ cache = <<>>
                /\ cache' = <<>>]_vars

\* two coroutines have run the same operation at the same time: both missed,
\* both made their GET and their set, and the cache holds the one entry.  One
\* of them slept in acquire(), so it looked its key up before tick MaxTtl,
\* when an entry set by the other would still have been live.
ConcurrentMissesKeepCacheWitness ==
    /\ opsStarted = 2
    /\ \A c \in Callers :
          /\ task[c].pc = "done" /\ task[c].status = "returned"
          /\ task[c].cached /\ task[c].path = "miss"
          /\ task[c].searchGets = 1 /\ task[c].sets = 1
          /\ task[c].key = task[1].key
    /\ \E c \in Callers : wakeAt[c] > 0
    /\ stats.misses = 2 /\ stats.sets = 2
    /\ Len(cache) = 1
    /\ cache[1].key = task[1].key

(***************************************************************************)
(* Claims about _parse_pubmed_xml (SpecParser), continued.                 *)
(***************************************************************************)
\* C28: on a well-formed payload every node that has an identifier has its
\* record in the result, whatever else the node lacks (its Article element,
\* or a field that Article(...) needs: the text of its title, of an author's
\* last name, of its journal title).
IdentifiedNodesYield ==
    (arg.fn = "_parse_pubmed_xml" /\ ret # NoRet /\ arg.x.ok) =>
        LET nodes == arg.x.nodes
            out == ret.value
        IN  /\ ret.kind = "returned"
            /\ \A i \in 1..Len(nodes) :
                  nodes[i].pmid # <<>> => \E j \in 1..Len(out) : out[j].pmid = nodes[i].pmid

(***************************************************************************)
(* Claims about the keys of long parameter strings (SpecLongKey).          *)
(***************************************************************************)
\* a key returned for a long joined string that is collapsed: it does not
\* begin with the joined string
Collapsed(key, key_string) ==
    ~(Len(key) >= Len(key_string) /\ SubSeq(key, 1, Len(key_string)) = key_string)

\* C29: a joined key string of at most 200 characters is returned unchanged;
\* for a longer one the key returned does not contain the joined string, and
\* its length does not depend on the size of the parameters: two long calls
\* for the same operation get keys of the same length.
LongKeysCollapsed ==
    LET sA == KeyString(callA.args, callA.kwargs)
        sB == KeyString(callB.args, callB.kwargs)
    IN  /\ keyA # NoKey =>
              IF Len(sA) > KeyLimit THEN Collapsed(keyA, sA) ELSE keyA = sA
        /\ keyB # NoKey =>
              IF Len(sB) > KeyLimit THEN Collapsed(keyB, sB) ELSE keyB = sB
        /\ (/\ keyA # NoKey /\ keyB # NoKey
            /\ callA.args = callB.args
            /\ Len(sA) > KeyLimit /\ Len(sB) > KeyLimit)
              => Len(keyA) = Len(keyB)

(***************************************************************************)
(* Claims about the size of the cache (SpecCache).                         *)
(***************************************************************************)
\* the keys of the entries of a store
KeysOf(store) == {store[i].key : i \in 1..Len(store)}

\* C30: after every step the cache holds at most max_size live entries (the
\* size get_stats reports); and a set of a key that is not in a cache full of
\* max_size >= 1 live entries evicts exactly one of them, the one whose last
\* get or set is the oldest, and stores the new entry, the others being kept
\* as they were.
BoundedCacheSize ==
    [][/\ Len(Expire(cache', now')) <= maxsize'
       /\ \A k \in CacheKeys, v \in CacheValues :
             LET live == Expire(cache, now)
                 gone == KeysOf(live) \ KeysOf(cache')
             IN  (/\ Set(k, v)
                  /\ maxsize >= 1
                  /\ k \notin KeysOf(live)
                  /\ Len(live) = maxsize)
                    => /\ Cardinality(gone) = 1
                       /\ \A e \in gone : \A j \in KeysOf(live) : lastUsed[e] <= lastUsed[j]
                       /\ KeysOf(cache') = (KeysOf(live) \ gone) \cup {k}
                       /\ Entry(cache', k).value = v
                       /\ \A j \in KeysOf(live) \ gone : Entry(cache', j) = Entry(live, j)]_vars

\* the cache of max_size 2 holds key3 and key1: key2, stored before key1, was
\* evicted by the set of key3 although key1 was stored first, because key1
\* had been read since
BoundedCacheSizeWitness ==
    /\ maxsize = 2
    /\ KeysOf(Expire(cache, now)) = {"key1", "key3"}
    /\ lastUsed["key2"] = 2
    /\ lastUsed["key1"] = 3
    /\ lastUsed["key3"] = 4
    /\ stats.hits = 1
    /\ stats.sets = 3

====
